---- MODULE Spec2Model ----
(***************************************************************************)
(* A model of the Arrow Flight / Flight SQL client: the transport session  *)
(* (FlightClient), its frame reassembly into the Arrow IPC stream format,  *)
(* the construction-time configuration handling and the SQL command layer  *)
(* (FlightSQLClient).                                                      *)
(*                                                                         *)
(* Six specifications share the variables:                                 *)
(*   SpecIPC  frame reassembly (processFlightDataMessages and below) as a  *)
(*            pure function of the buffered frames;                        *)
(*   SpecCfg  new FlightClient(config);                                    *)
(*   Spec     one session: lazy connect, handshake, doGet and close();     *)
(*   SpecConcurrent  one session on which the caller starts several        *)
(*            operations without waiting for one another;                  *)
(*   SpecSQL  the invocations of the methods of the command layer, one     *)
(*            after the other, over the outcomes of the primitive          *)
(*            operations they await.                                       *)
(*   SpecRpc  the streaming primitives that hand the caller what the       *)
(*            server streamed (doAction, listFlights, listActions) and the *)
(*            upload (doPut), one invocation after the other.              *)
(***************************************************************************)
EXTENDS Integers, Sequences, FiniteSets, TLC

(***************************************************************************)
(* Bounds of the model.                                                    *)
(***************************************************************************)
\* longest header of a frame that is reassembled alone
MaxHeaderLen == 9
\* longest body that is not a whole number of alignment units
MaxBodyLen == 1
\* longest frame sequence handed to the reassembly
MaxFrames == 3
\* longest header of a frame inside a sequence of frames
MaxSeqHeaderLen == 1
\* invocations of primitive operations in flight at once on one session
MaxCalls == 1
\* channels one session constructs
MaxChannels == 2
\* most frames the server sends in one session, over all do-get streams
MaxStreamFrames == 1
\* most rows of a table the command layer decodes
MaxRows == 1
\* operations the caller starts together on a fresh session
MaxOps == 2
\* most results a server streams on one doAction, listFlights or listActions
MaxResults == 2
\* most frames the input of one doPut yields
MaxInputFrames == 2

(***************************************************************************)
(* Bytes and byte arrays.  A Uint8Array is a sequence of 0..255; an        *)
(* optional one (header?: Uint8Array) is a record that says whether it is  *)
(* present: the reassembly is typed to take frames without header or body. *)
(***************************************************************************)
Absent == [present |-> FALSE, bytes |-> <<>>]

Present(b) == [present |-> TRUE, bytes |-> b]

\* the header bytes of the frames the model feeds in: 254, 255, 0, 1, ...
HeaderBytes(n) == [i \in 1..n |-> (253 + i) % 256]

\* the body bytes of the frames the model feeds in: 107, 114, 121, ...
BodyBytes(n) == [i \in 1..n |-> (100 + 7 * i) % 256]

\* new Uint8Array(n): zero-filled
NewUint8Array(n) == [i \in 1..n |-> 0]

\* target.set(source, offset), offset counted from 0
Uint8ArraySet(target, source, offset) ==
    [i \in 1..Len(target) |->
        IF i > offset /\ i <= offset + Len(source) THEN source[i - offset]
                                                    ELSE target[i]]

(***************************************************************************)
(* A JavaScript number used as a 32-bit unsigned integer is kept as two    *)
(* 16-bit halves, hi * 65536 + lo, since 0xFFFFFFFF exceeds the checker's  *)
(* integers.                                                               *)
(***************************************************************************)
Uint32(n) == [hi |-> (n \div 65536) % 65536, lo |-> n % 65536]

\* byte k (0 = least significant) of a 32-bit value
ByteOf(value, k) ==
    CASE k = 0 -> value.lo % 256
      [] k = 1 -> value.lo \div 256
      [] k = 2 -> value.hi % 256
      [] k = 3 -> value.hi \div 256

(***************************************************************************)
(* FlightClient.writeUint32: DataView.setUint32(0, value, true) stores the *)
(* value least significant byte first; returns the buffer as written and   *)
(* offset + 4.                                                             *)
(***************************************************************************)
writeUint32_BigEndian(buffer, offset, value) ==
    [buffer |-> [i \in 1..Len(buffer) |->
                    IF i > offset /\ i <= offset + 4
                    THEN ByteOf(value, 4 - (i - offset))
                    ELSE buffer[i]],
     offset |-> offset + 4]

writeUint32(buffer, offset, value) ==
    [buffer |-> [i \in 1..Len(buffer) |->
                    IF i > offset /\ i <= offset + 4
                    THEN ByteOf(value, i - offset - 1)
                    ELSE buffer[i]],
     offset |-> offset + 4]

(***************************************************************************)
(* FlightClient.calculatePadding                                           *)
(***************************************************************************)
Alignment == 8

calculatePadding_PrefixOnly(messageLength) ==
    (Alignment - ((4 + messageLength) % Alignment)) % Alignment

calculatePadding_NoOuterMod(messageLength) ==
    Alignment - (messageLength % Alignment)

calculatePadding(messageLength) ==
    (Alignment - (messageLength % Alignment)) % Alignment

\* 0xFFFFFFFF
ContinuationMarker == [hi |-> 65535, lo |-> 65535]

(***************************************************************************)
(* FlightClient.createIPCMessage(header, body?)                            *)
(***************************************************************************)
createIPCMessage_MarkerZero(header, body) ==
    LET messageLength == Len(header)
        bodyLength    == IF body.present THEN Len(body.bytes) ELSE 0
        paddingLength == calculatePadding(messageLength)
        totalLength   == 4 + 4 + messageLength + paddingLength + bodyLength
        w1 == writeUint32(NewUint8Array(totalLength), 0, Uint32(0))
        w2 == writeUint32(w1.buffer, w1.offset, Uint32(messageLength))
        b3 == Uint8ArraySet(w2.buffer, header, w2.offset)
        offset == w2.offset + messageLength + paddingLength
    IN  IF body.present /\ Len(body.bytes) > 0
        THEN Uint8ArraySet(b3, body.bytes, offset)
        ELSE b3

createIPCMessage(header, body) ==
    LET messageLength == Len(header)
        bodyLength    == IF body.present THEN Len(body.bytes) ELSE 0
        paddingLength == calculatePadding(messageLength)
        totalLength   == 4 + 4 + messageLength + paddingLength + bodyLength
        \* continuation indicator, then message length
        w1 == writeUint32(NewUint8Array(totalLength), 0, ContinuationMarker)
        w2 == writeUint32(w1.buffer, w1.offset, Uint32(messageLength))
        \* the FlatBuffer message (header)
        b3 == Uint8ArraySet(w2.buffer, header, w2.offset)
        \* skip the padding (already zero-filled)
        offset == w2.offset + messageLength + paddingLength
    IN  IF body.present /\ Len(body.bytes) > 0
        THEN Uint8ArraySet(b3, body.bytes, offset)
        ELSE b3

(***************************************************************************)
(* FlightClient.convertFlightDataToIPC(messages): one block per message    *)
(* whose header is present and not empty, in order.                        *)
(***************************************************************************)
RECURSIVE convertFlightDataToIPC_NoSkip(_)
convertFlightDataToIPC_NoSkip(messages) ==
    IF messages = <<>> THEN <<>>
    ELSE LET message == Head(messages)
         IN  <<createIPCMessage(message.header.bytes, message.body)>>
                \o convertFlightDataToIPC_NoSkip(Tail(messages))

RECURSIVE convertFlightDataToIPC_Prepend(_)
convertFlightDataToIPC_Prepend(messages) ==
    IF messages = <<>> THEN <<>>
    ELSE LET message == Head(messages)
             rest    == convertFlightDataToIPC_Prepend(Tail(messages))
         IN  IF ~message.header.present \/ Len(message.header.bytes) = 0
             THEN rest
             ELSE rest \o <<createIPCMessage(message.header.bytes, message.body)>>

RECURSIVE convertFlightDataToIPC(_)
convertFlightDataToIPC(messages) ==
    IF messages = <<>> THEN <<>>
    ELSE LET message == Head(messages)
             rest    == convertFlightDataToIPC(Tail(messages))
         IN  IF ~message.header.present \/ Len(message.header.bytes) = 0
             THEN rest
             ELSE <<createIPCMessage(message.header.bytes, message.body)>> \o rest

(***************************************************************************)
(* Tables.  new Table() has no schema and no batches; tableFromIPC is the  *)
(* external decoder: it either returns the table decoded from the blocks   *)
(* it was handed or throws.                                                *)
(***************************************************************************)
NewTable == [hasSchema |-> FALSE, ipc |-> <<>>]

tableFromIPC(ipcParts) == [hasSchema |-> TRUE, ipc |-> ipcParts]

NoTable == [hasSchema |-> FALSE, ipc |-> << <<0>> >>]

(***************************************************************************)
(* The frames fed to the reassembly.                                       *)
(***************************************************************************)
BodyLens == (0..MaxBodyLen) \cup {Alignment}

Bodies == {Absent} \cup {Present(BodyBytes(n)) : n \in BodyLens}

\* frames reassembled alone: every header length up to MaxHeaderLen
WideFrames ==
    {[header |-> h, body |-> b] :
        h \in {Absent} \cup {Present(HeaderBytes(n)) : n \in 0..MaxHeaderLen},
        b \in Bodies}

\* frames reassembled in sequences: the header absent, empty or short; the
\* body absent, one byte or one alignment unit
SeqFrames ==
    {[header |-> h, body |-> b] :
        h \in {Absent} \cup {Present(HeaderBytes(n)) : n \in 0..MaxSeqHeaderLen},
        b \in {Absent, Present(BodyBytes(1)), Present(BodyBytes(Alignment))}}

RECURSIVE SeqsUpTo(_, _)
SeqsUpTo(S, n) ==
    IF n = 0 THEN {<<>>}
    ELSE LET shorter == SeqsUpTo(S, n - 1)
         IN  shorter \cup {Append(s, x) : s \in shorter, x \in S}

FrameSeqs == SeqsUpTo(SeqFrames, MaxFrames) \cup {<<f>> : f \in WideFrames}

(***************************************************************************)
(* Optional JavaScript values: a property that is undefined or missing,    *)
(* or one that has a value.  Strings that the code only tests and copies   *)
(* are strings; the strings it encodes (username, password) are sequences  *)
(* of character codes.                                                     *)
(***************************************************************************)
NoString == [def |-> FALSE, val |-> ""]

NoChars == [def |-> FALSE, val |-> <<>>]

NoNumber == [def |-> FALSE, val |-> 0]

NoBoolean == [def |-> FALSE, val |-> FALSE]

Some(v) == [def |-> TRUE, val |-> v]

\* JavaScript truthiness of an optional string, character sequence, number
\* and boolean
TruthyString(o) == o.def /\ o.val # ""

TruthyChars(o) == o.def /\ o.val # <<>>

TruthyNumber(o) == o.def /\ o.val # 0

TruthyBoolean(o) == o.def /\ o.val

(***************************************************************************)
(* The error classes.                                                      *)
(***************************************************************************)
NoError == [name |-> "", message |-> "", code |-> NoString, cause |-> ""]

FlightError(message, code) ==
    [name |-> "FlightError", message |-> message, code |-> code, cause |-> ""]

\* originalError is kept by its class name
ConnectionError(message, originalError) ==
    [name |-> "ConnectionError", message |-> message, code |-> NoString,
     cause |-> originalError.name]

AuthenticationError(message) ==
    [name |-> "AuthenticationError", message |-> message, code |-> NoString, cause |-> ""]

\* what the JavaScript runtime throws on this.client!.doGet(..) with client null
TypeError(message) ==
    [name |-> "TypeError", message |-> message, code |-> NoString, cause |-> ""]

\* what the gRPC library throws or reports: an optional numeric code and an
\* optional message
GrpcError(code, message) == [code |-> code, message |-> message]

(***************************************************************************)
(* parseErrorFromGrpc(error)                                               *)
(***************************************************************************)
parseErrorFromGrpc_NoUnavailable(error) ==
    IF error.code = Some(16)
    THEN FlightError("Authentication failed", Some("UNAUTHENTICATED"))
    ELSE FlightError(IF TruthyString(error.message) THEN error.message.val
                                                    ELSE "Unknown error",
                     IF error.code.def THEN Some(ToString(error.code.val))
                                       ELSE NoString)

parseErrorFromGrpc(error) ==
    IF error.code = Some(16)
    THEN FlightError("Authentication failed", Some("UNAUTHENTICATED"))
    ELSE IF error.code = Some(14)
    THEN FlightError("Service unavailable", Some("UNAVAILABLE"))
    ELSE FlightError(IF TruthyString(error.message) THEN error.message.val
                                                    ELSE "Unknown error",
                     IF error.code.def THEN Some(ToString(error.code.val))
                                       ELSE NoString)

(***************************************************************************)
(* validateConfig(config): the error it throws, or NoError                 *)
(***************************************************************************)
validateConfig_NegativePortOnly(cfg) ==
    IF ~TruthyString(cfg.host) THEN FlightError("Host is required", NoString)
    ELSE IF cfg.port.def /\ cfg.port.val < 0
         THEN FlightError("Valid port number is required", NoString)
         ELSE NoError

validateConfig(cfg) ==
    IF ~TruthyString(cfg.host) THEN FlightError("Host is required", NoString)
    ELSE IF ~TruthyNumber(cfg.port) \/ cfg.port.val <= 0
         THEN FlightError("Valid port number is required", NoString)
         ELSE NoError

(***************************************************************************)
(* FlightClient.createCredentials, on this.config                          *)
(***************************************************************************)
createCredentials_SkipVerifyFirst(cfg) ==
    IF TruthyBoolean(cfg.tlsSkipVerify) THEN "ssl-skip-verify"
    ELSE IF TruthyBoolean(cfg.plaintext) THEN "insecure"
    ELSE "ssl"

createCredentials(cfg) ==
    IF TruthyBoolean(cfg.plaintext) THEN "insecure"
    ELSE IF TruthyBoolean(cfg.tlsSkipVerify) THEN "ssl-skip-verify"
    ELSE "ssl"

(***************************************************************************)
(* Buffer.from(string).toString('base64'): UTF-8, then base64 with padding *)
(***************************************************************************)
Base64Alphabet ==
    <<"A", "B", "C", "D", "E", "F", "G", "H", "I", "J", "K", "L", "M",
      "N", "O", "P", "Q", "R", "S", "T", "U", "V", "W", "X", "Y", "Z",
      "a", "b", "c", "d", "e", "f", "g", "h", "i", "j", "k", "l", "m",
      "n", "o", "p", "q", "r", "s", "t", "u", "v", "w", "x", "y", "z",
      "0", "1", "2", "3", "4", "5", "6", "7", "8", "9", "+", "/">>

RECURSIVE Utf8(_)
Utf8(chars) ==
    IF chars = <<>> THEN <<>>
    ELSE LET c == Head(chars)
         IN  (IF c < 128 THEN <<c>> ELSE <<192 + (c \div 64), 128 + (c % 64)>>)
                \o Utf8(Tail(chars))

RECURSIVE Base64(_)
Base64(b) ==
    IF Len(b) = 0 THEN ""
    ELSE IF Len(b) = 1
    THEN Base64Alphabet[(b[1] \div 4) + 1] \o Base64Alphabet[(b[1] % 4) * 16 + 1] \o "=="
    ELSE IF Len(b) = 2
    THEN Base64Alphabet[(b[1] \div 4) + 1]
            \o Base64Alphabet[(b[1] % 4) * 16 + (b[2] \div 16) + 1]
            \o Base64Alphabet[(b[2] % 16) * 4 + 1] \o "="
    ELSE Base64Alphabet[(b[1] \div 4) + 1]
            \o Base64Alphabet[(b[1] % 4) * 16 + (b[2] \div 16) + 1]
            \o Base64Alphabet[(b[2] % 16) * 4 + (b[3] \div 64) + 1]
            \o Base64Alphabet[(b[3] % 64) + 1]
            \o Base64(SubSeq(b, 4, Len(b)))

(***************************************************************************)
(* FlightClient.createMetadata: the authorization entry of this.metadata   *)
(***************************************************************************)
createMetadata_BasicFirst(cfg) ==
    IF TruthyChars(cfg.username) /\ TruthyChars(cfg.password)
    THEN Some("Basic " \o Base64(Utf8(cfg.username.val \o <<58>> \o cfg.password.val)))
    ELSE IF TruthyString(cfg.token) THEN Some("Bearer " \o cfg.token.val)
         ELSE NoString

createMetadata(cfg) ==
    IF TruthyString(cfg.token) THEN Some("Bearer " \o cfg.token.val)
    ELSE IF TruthyChars(cfg.username) /\ TruthyChars(cfg.password)
         THEN Some("Basic " \o Base64(Utf8(cfg.username.val \o <<58>> \o cfg.password.val)))
         ELSE NoString

(***************************************************************************)
(* The config objects passed to the constructor.                           *)
(***************************************************************************)
Configs ==
    [host          : {NoString, Some(""), Some("localhost")},
     port          : {NoNumber, Some(-1), Some(0), Some(1), Some(4317)},
     plaintext     : {NoBoolean, Some(FALSE), Some(TRUE)},
     tlsSkipVerify : {NoBoolean, Some(FALSE), Some(TRUE)},
     token         : {NoString, Some(""), Some("tok")},
     username      : {NoChars, Some(<<>>), Some(<<117>>), Some(<<117, 115, 101, 114>>)},
     password      : {NoChars, Some(<<>>), Some(<<112, 233>>), Some(<<112, 97, 115, 115>>)}]

NoConfig ==
    [host |-> NoString, port |-> NoNumber, plaintext |-> NoBoolean,
     tlsSkipVerify |-> NoBoolean, token |-> NoString, username |-> NoChars,
     password |-> NoChars]

\* no FlightClient object: the constructor has not run, or it threw
NotConstructed ==
    [state |-> "new", error |-> NoError, config |-> NoConfig, credentials |-> "",
     metadata |-> NoString, client |-> 0]

(***************************************************************************)
(* The SQL command layer (FlightSQLClient).  It talks to the server only   *)
(* through the primitive operations of the session; one invocation of a    *)
(* command-layer method is followed from its call to its settling.         *)
(***************************************************************************)
\* sqlState is never given by this code and is left out
FlightSQLError(message) ==
    [name |-> "FlightSQLError", message |-> message, code |-> NoString, cause |-> ""]

\* error instanceof FlightError
InstanceofFlightError(error) ==
    error.name \in {"FlightError", "FlightSQLError", "ConnectionError",
                    "AuthenticationError", "SchemaError"}

\* `${error}` of an Error object
ErrorToString(error) ==
    IF error.message = "" THEN error.name ELSE error.name \o ": " \o error.message

QueryMethods == {"execute", "executePrepared"}

MetadataMethods ==
    {"getCatalogs", "getSchemas", "getTables", "getTableTypes", "getPrimaryKeys",
     "getForeignKeys"}

ActionMethods == {"prepare", "closePrepared"}

Methods == QueryMethods \cup MetadataMethods \cup ActionMethods \cup {"getQuerySchema"}

\* the message prefix of the FlightSQLError in the catch block of each method
FailedTo(method) ==
    CASE method = "execute"         -> "Failed to execute query"
      [] method = "getQuerySchema"  -> "Failed to get query schema"
      [] method = "prepare"         -> "Failed to prepare statement"
      [] method = "executePrepared" -> "Failed to execute prepared statement"
      [] method = "closePrepared"   -> "Failed to close prepared statement"
      [] method = "getCatalogs"     -> "Failed to get catalogs"
      [] method = "getSchemas"      -> "Failed to get schemas"
      [] method = "getTables"       -> "Failed to get tables"
      [] method = "getTableTypes"   -> "Failed to get table types"
      [] method = "getPrimaryKeys"  -> "Failed to get primary keys"
      [] method = "getForeignKeys"  -> "Failed to get foreign keys"

\* the catch block of a method: the error the method fails with, given the
\* error caught.  Only execute tests for an error that is typed already.
CatchBlock(method, error) ==
    IF method = "execute" /\ InstanceofFlightError(error)
    THEN error
    ELSE FlightSQLError(FailedTo(method) \o ": " \o ErrorToString(error))

\* what a step of a method does next: throw (into its catch block), return a
\* value, or issue a do-get with a ticket
Throw(error) == [do |-> "throw", error |-> error, value |-> <<>>, ticket |-> NoString]

Return(value) == [do |-> "return", error |-> NoError, value |-> value, ticket |-> NoString]

DoGet(ticket) == [do |-> "doGet", error |-> NoError, value |-> <<>>, ticket |-> ticket]

(***************************************************************************)
(* FlightSQLClient.getQueryTicket, after getFlightInfo has resolved        *)
(***************************************************************************)
getQueryTicket_SkipsEndpointCheck(flightInfo) ==
    LET endpoints == flightInfo
    IN  IF Len(endpoints) = 0
        THEN Throw(TypeError("Cannot read properties of undefined"))
        ELSE IF ~endpoints[1].ticket.def
             THEN Throw(FlightSQLError("No ticket returned from endpoint"))
             ELSE DoGet(endpoints[1].ticket)

getQueryTicket(flightInfo) ==
    LET endpoints == flightInfo
    IN  IF Len(endpoints) = 0
        THEN Throw(FlightSQLError("No endpoints returned from query"))
        ELSE IF ~endpoints[1].ticket.def
             THEN Throw(FlightSQLError("No ticket returned from endpoint"))
             ELSE DoGet(endpoints[1].ticket)

(***************************************************************************)
(* What a method does with the FlightInfo its getFlightInfo resolved with: *)
(* execute through getQueryTicket, executePrepared and the metadata        *)
(* methods in their own bodies.                                            *)
(***************************************************************************)
AfterFlightInfo_MetadataLikeQuery(method, flightInfo) ==
    LET endpoints == flightInfo
    IN  IF method = "execute" THEN getQueryTicket(flightInfo)
        ELSE IF Len(endpoints) = 0
        THEN Throw(FlightSQLError("No endpoints returned from prepared query"))
        ELSE IF ~endpoints[1].ticket.def
        THEN Throw(FlightSQLError("No ticket returned from endpoint"))
        ELSE DoGet(endpoints[1].ticket)

\* a method that takes the ticket of the last endpoint
AfterFlightInfo_LastEndpoint(method, flightInfo) ==
    LET endpoints == flightInfo
    IN  IF Len(endpoints) = 0
        THEN IF method \in QueryMethods
             THEN Throw(FlightSQLError("No endpoints returned from query"))
             ELSE Return(<<>>)
        ELSE IF ~endpoints[Len(endpoints)].ticket.def
        THEN IF method \in QueryMethods
             THEN Throw(FlightSQLError("No ticket returned from endpoint"))
             ELSE Return(<<>>)
        ELSE DoGet(endpoints[Len(endpoints)].ticket)

AfterFlightInfo(method, flightInfo) ==
    LET endpoints == flightInfo
    IN  IF method = "execute" THEN getQueryTicket(flightInfo)
        ELSE IF Len(endpoints) = 0
        THEN IF method = "executePrepared"
             THEN Throw(FlightSQLError("No endpoints returned from prepared query"))
             ELSE Return(<<>>)
        ELSE IF ~endpoints[1].ticket.def
        THEN IF method = "executePrepared"
             THEN Throw(FlightSQLError("No ticket returned from endpoint"))
             ELSE Return(<<>>)
        ELSE DoGet(endpoints[1].ticket)

(***************************************************************************)
(* Rows of a decoded table: a row has a value for each column the server   *)
(* sent; row.column is undefined for a column it did not send.             *)
(***************************************************************************)
RowGet(row, column) == IF column \in DOMAIN row THEN Some(row[column]) ELSE NoString

\* rows.map(row => ...) of each method; execute resolves with the table and
\* executePrepared with table.toArray()
ProjectRow(method, row) ==
    CASE method = "getCatalogs" -> RowGet(row, "catalog_name")
      [] method = "getSchemas" ->
            [catalog |-> RowGet(row, "catalog_name"),
             schema  |-> RowGet(row, "db_schema_name")]
      [] method = "getTables" ->
            [catalog   |-> RowGet(row, "catalog_name"),
             schema    |-> RowGet(row, "db_schema_name"),
             tableName |-> RowGet(row, "table_name"),
             tableType |-> RowGet(row, "table_type")]
      [] method = "getTableTypes" -> RowGet(row, "table_type")
      [] method = "getPrimaryKeys" ->
            [catalogName |-> RowGet(row, "catalog_name"),
             schemaName  |-> RowGet(row, "db_schema_name"),
             tableName   |-> RowGet(row, "table_name"),
             columnName  |-> RowGet(row, "column_name"),
             keySequence |-> RowGet(row, "key_sequence")]
      [] method = "getForeignKeys" ->
            [pkCatalogName |-> RowGet(row, "pk_catalog_name"),
             pkSchemaName  |-> RowGet(row, "pk_db_schema_name"),
             pkTableName   |-> RowGet(row, "pk_table_name"),
             pkColumnName  |-> RowGet(row, "pk_column_name"),
             fkCatalogName |-> RowGet(row, "fk_catalog_name"),
             fkSchemaName  |-> RowGet(row, "fk_db_schema_name"),
             fkTableName   |-> RowGet(row, "fk_table_name"),
             fkColumnName  |-> RowGet(row, "fk_column_name")]
      [] OTHER -> row

AfterDoGet(method, table) == Return([k \in 1..Len(table) |-> ProjectRow(method, table[k])])

\* prepare, after doAction has resolved with results (the body of each)
AfterPrepare(results) ==
    IF Len(results) = 0
    THEN Throw(FlightSQLError("No results returned from prepare statement"))
    ELSE Return(<<results[1]>>)

(***************************************************************************)
(* Commands and descriptors.  serializeBinary() of a protocol-buffer       *)
(* message gives the fields that are set, each as its name and its value,  *)
(* a bytes value with its length before it; the bytes do not name the      *)
(* message type.  Bytes are kept as sequences of strings.                  *)
(***************************************************************************)
TYPE_URLS ==
    [COMMAND_STATEMENT_QUERY |->
        "type.googleapis.com/arrow.flight.protocol.sql.CommandStatementQuery",
     COMMAND_PREPARED_STATEMENT_QUERY |->
        "type.googleapis.com/arrow.flight.protocol.sql.CommandPreparedStatementQuery",
     COMMAND_GET_CATALOGS |->
        "type.googleapis.com/arrow.flight.protocol.sql.CommandGetCatalogs",
     COMMAND_GET_DB_SCHEMAS |->
        "type.googleapis.com/arrow.flight.protocol.sql.CommandGetDbSchemas",
     COMMAND_GET_TABLES |->
        "type.googleapis.com/arrow.flight.protocol.sql.CommandGetTables",
     COMMAND_GET_TABLE_TYPES |->
        "type.googleapis.com/arrow.flight.protocol.sql.CommandGetTableTypes",
     COMMAND_GET_PRIMARY_KEYS |->
        "type.googleapis.com/arrow.flight.protocol.sql.CommandGetPrimaryKeys",
     COMMAND_GET_IMPORTED_KEYS |->
        "type.googleapis.com/arrow.flight.protocol.sql.CommandGetImportedKeys",
     ACTION_CREATE_PREPARED_STATEMENT |->
        "type.googleapis.com/arrow.flight.protocol.sql.ActionCreatePreparedStatementRequest",
     ACTION_CLOSE_PREPARED_STATEMENT |->
        "type.googleapis.com/arrow.flight.protocol.sql.ActionClosePreparedStatementRequest"]

\* a string field and a bytes field of a serialized message; a field left at
\* its default is not written
StringField(name, value) == IF value = "" THEN <<>> ELSE <<name, value>>

BytesField(name, value) ==
    IF value = <<>> THEN <<>> ELSE <<name, ToString(Len(value))>> \o value

\* packCommand(command, typeUrl), given command.serializeBinary()
packCommand(command, typeUrl) ==
    StringField("type_url", typeUrl) \o BytesField("value", command)

\* new FlightDescriptor() with setType(CMD) and setCmd(cmd)
CmdDescriptor(cmd) == [type |-> "CMD", cmd |-> cmd]

createCommandDescriptor(command, typeUrl) ==
    CmdDescriptor(packCommand(command, typeUrl))

\* the arguments of a method call: the query text, the handle of the
\* prepared statement, and the catalog, schema and table a metadata method
\* asks about ("" and <<>> where the method has no such argument or the
\* caller leaves it out)
NoArgs == [query |-> "", handle |-> <<>>, catalog |-> "", dbSchema |-> "", table |-> ""]

\* command.serializeBinary() of the command each method builds from its
\* arguments; if (catalog) and the like leave a falsy argument unset
SerializedCommand(method, args) ==
    CASE method \in {"execute", "getQuerySchema"} ->
            StringField("query", args.query)
      [] method = "executePrepared" ->
            BytesField("prepared_statement_handle", args.handle)
      [] method \in {"getCatalogs", "getTableTypes"} -> <<>>
      [] method = "getSchemas" -> StringField("catalog", args.catalog)
      [] method = "getTables" ->
            StringField("catalog", args.catalog)
                \o StringField("db_schema_filter_pattern", args.dbSchema)
                \o StringField("table_name_filter_pattern", args.table)
      [] method \in {"getPrimaryKeys", "getForeignKeys"} ->
            StringField("catalog", args.catalog)
                \o StringField("db_schema", args.dbSchema)
                \o StringField("table", args.table)

\* the descriptor a method passes to getFlightInfo or getSchema: execute
\* through createCommandDescriptor, the others with the serialized command
\* as the cmd
Descriptor(method, args) ==
    IF method = "execute"
    THEN createCommandDescriptor(SerializedCommand(method, args),
                                 TYPE_URLS.COMMAND_STATEMENT_QUERY)
    ELSE CmdDescriptor(SerializedCommand(method, args))

\* the object prepare and closePrepared pass to doAction: a new
\* FlightDescriptor with its type set; the request built from the argument
\* is not put into it
ActionArgument(method, args) == CmdDescriptor(<<>>)

\* what a method passes to its first primitive operation
Request(method, args) ==
    IF method \in ActionMethods THEN ActionArgument(method, args)
    ELSE Descriptor(method, args)

NoRequest == [type |-> "", cmd |-> <<>>]

Queries == {"SELECT 1", "SELECT 2"}

\* handles of prepared statements, kept by a name
Handles == {<<"h1">>, <<"h2">>}

\* the argument lists a caller gives each method
SqlArgs(method) ==
    CASE method \in {"execute", "getQuerySchema", "prepare"} ->
            {[NoArgs EXCEPT !.query = q] : q \in Queries}
      [] method \in {"executePrepared", "closePrepared"} ->
            {[NoArgs EXCEPT !.handle = h] : h \in Handles}
      [] method \in {"getSchemas", "getTables"} ->
            {NoArgs, [NoArgs EXCEPT !.catalog = "main"]}
      [] method \in {"getPrimaryKeys", "getForeignKeys"} ->
            {[NoArgs EXCEPT !.catalog = "main", !.dbSchema = "public", !.table = "t"]}
      [] OTHER -> {NoArgs}

(***************************************************************************)
(* What the server and the transport give an invocation.                   *)
(***************************************************************************)
\* FlightInfo responses, by their endpoint list; a ticket is kept by a name
FlightInfos ==
    {<<>>,
     <<[ticket |-> NoString]>>,
     <<[ticket |-> Some("ticket1")]>>,
     <<[ticket |-> Some("ticket1")], [ticket |-> Some("ticket2")]>>,
     <<[ticket |-> NoString], [ticket |-> Some("ticket2")]>>}

Columns ==
    {"catalog_name", "db_schema_name", "table_name", "table_type", "column_name",
     "key_sequence", "pk_catalog_name", "pk_db_schema_name", "pk_table_name",
     "pk_column_name", "fk_catalog_name", "fk_db_schema_name", "fk_table_name",
     "fk_column_name"}

\* a row with every column, and one without the catalog and table type
\* columns
SqlRows ==
    {[c \in Columns |-> "v"],
     [c \in Columns \ {"catalog_name", "table_type", "pk_catalog_name"} |-> "v"]}

SqlTables == SeqsUpTo(SqlRows, MaxRows)

\* the Results of a do-action stream, by their bodies
ActionResults == {<<>>, << <<1, 2>> >>, << <<1, 2>>, <<3>> >>}

\* the errors the transport reports to a call: with and without a code, with
\* and without a message
SqlGrpcErrors ==
    {GrpcError(code, message) :
        code \in {NoNumber, Some(0), Some(4), Some(14), Some(16)},
        message \in {NoString, Some(""), Some("boom")}}

\* no transport error reported (yet), no FlightInfo received (yet)
NoGrpcError == [def |-> FALSE, val |-> GrpcError(NoNumber, NoString)]

NoFlightInfo == [def |-> FALSE, val |-> <<>>]

\* the config of the session the command layer runs on
SqlConfig ==
    [NoConfig EXCEPT !.host = Some("localhost"), !.port = Some(4317),
                     !.plaintext = Some(TRUE)]

\* what a primitive operation fails with before it has issued its RPC: the
\* ConnectionError of a lazy connect that fails, and the TypeError of
\* this.client! after a close()
PrimitiveThrown ==
    {[name |-> "ConnectionError",
      message |-> "Failed to connect to localhost:4317",
      code |-> NoString, cause |-> "Error"],
     TypeError("Cannot read properties of null")}

\* what the end handler of doGet rejects with when the decoder throws
ParseFailure == FlightError("Failed to parse Arrow data: Error", NoString)

\* what getSchema rejects with when Schema.decode throws
SchemaParseFailure == FlightError("Failed to parse schema: Error", NoString)

SqlPending == [state |-> "pending", value |-> <<>>, error |-> NoError]

\* no Results received (yet) from a do-action stream
NoResults == [def |-> FALSE, val |-> <<>>]

\* one invocation of a command-layer method: the method and its arguments,
\* the primitive it awaits, what it passed to its first primitive, how many
\* RPCs of each kind it issued, the FlightInfo, the Results and the
\* transport error its primitives were given, the error its primitive
\* rejected with, the error its catch block caught, and its promise.  Over
\* the invocations made so far on the client: the handles whose
\* closePrepared the server completed, and the descriptors executePrepared
\* passed to getFlightInfo, each with its handle and whether the handle was
\* closed by then.
IdleSql ==
    [method |-> "", args |-> NoArgs, pc |-> "idle", request |-> NoRequest,
     rpcs |-> [getFlightInfo |-> 0, doGet |-> 0, doAction |-> 0, getSchema |-> 0],
     flightInfo |-> NoFlightInfo, results |-> NoResults, ticket |-> NoString,
     grpcError |-> NoGrpcError,
     rejection |-> NoError, caught |-> NoError, promise |-> SqlPending,
     closed |-> {}, requested |-> {}]

VARIABLES
    \* SpecIPC: the frames buffered by a do-get call, what the decoder was
    \* handed (one entry per invocation) and what processFlightDataMessages
    \* returned or threw
    messages, decoderCalls, processed,
    \* SpecCfg: the config object passed to new FlightClient(config).
    \* SpecCfg and Spec: the FlightClient object (this): its config,
    \* credentials, metadata (the authorization entry) and client (0 for
    \* null, else the number of the channel)
    config, constructed,
    \* Spec: how many channels were constructed so far, and the invocations
    \* of the primitive operations
    channelsCreated, calls,
    \* Spec: what the session did so far: how many handshake streams it
    \* opened, how many times it set the authorization entry and whether a
    \* close() threw
    history,
    \* SpecSQL: the invocation of a command-layer method
    sql

ipcVars == <<messages, decoderCalls, processed>>

cfgVars == <<config, constructed>>

sessionVars == <<channelsCreated, calls, history>>

sqlVars == <<sql>>

vars == <<messages, decoderCalls, processed, config, constructed, channelsCreated, calls,
         history, sql>>

Pending == [state |-> "pending", table |-> NoTable]

Returned(t) == [state |-> "returned", table |-> t]

Threw == [state |-> "threw", table |-> NoTable]

(***************************************************************************)
(* FlightClient.processFlightDataMessages(messages): what it returns, or   *)
(* that it throws, given whether the decoder throws on these blocks        *)
(***************************************************************************)
processFlightDataMessagesResult_AlwaysDecode(msgs, decoderThrows) ==
    IF decoderThrows THEN Threw
    ELSE Returned(tableFromIPC(convertFlightDataToIPC(msgs)))

processFlightDataMessagesResult(msgs, decoderThrows) ==
    IF Len(msgs) = 0 THEN Returned(NewTable)
    ELSE IF decoderThrows THEN Threw
    ELSE Returned(tableFromIPC(convertFlightDataToIPC(msgs)))

(***************************************************************************)
(* A promise and its settling: the first resolve or reject wins.           *)
(***************************************************************************)
PromisePending == [state |-> "pending", table |-> NoTable, error |-> NoError]

Resolve(promise, table) ==
    IF promise.state = "pending"
    THEN [state |-> "resolved", table |-> table, error |-> NoError]
    ELSE promise

Reject(promise, error) ==
    IF promise.state = "pending"
    THEN [state |-> "rejected", table |-> NoTable, error |-> error]
    ELSE promise

(***************************************************************************)
(* One invocation of a primitive operation: where it stands (idle, waiting *)
(* for the handshake of its connect(), resuming after the await, streaming,*)
(* done), the handshake stream its connect() opened, the channel and the   *)
(* authorization its RPC was issued with, the frames buffered, the state   *)
(* of the response stream and the promise returned to the caller.          *)
(* hsAuthHeader is the authorization header the response metadata of its   *)
(* handshake carried, kept while connect() is awaited.                     *)
(***************************************************************************)
IdleCall ==
    [kind |-> "doGet", pc |-> "idle", hsState |-> "none", hsMetadata |-> FALSE,
     hsAuthHeader |-> NoString, channel |-> 0, authorization |-> NoString, flightDataMessages |-> <<>>,
     stream |-> "none", promise |-> PromisePending]

CallIds == 1..MaxCalls

NoHistory == [handshakes |-> 0, authorizationSets |-> 0, closeThrew |-> FALSE]

InitIPC ==
    /\ messages \in FrameSeqs
    /\ decoderCalls = <<>>
    /\ processed = Pending
    /\ config = NoConfig
    /\ constructed = NotConstructed
    /\ channelsCreated = 0
    /\ calls = [i \in CallIds |-> IdleCall]
    /\ history = NoHistory
    /\ sql = IdleSql

(***************************************************************************)
(* FlightClient.processFlightDataMessages(messages)                        *)
(***************************************************************************)
ProcessEmpty ==
    /\ processed = Pending
    /\ Len(messages) = 0
    /\ processed' = processFlightDataMessagesResult(messages, FALSE)
    /\ UNCHANGED <<messages, decoderCalls, cfgVars, sessionVars, sqlVars>>

ProcessDecode ==
    /\ processed = Pending
    /\ Len(messages) # 0
    /\ decoderCalls' = Append(decoderCalls, convertFlightDataToIPC(messages))
    /\ \E decoderThrows \in BOOLEAN :
          processed' = processFlightDataMessagesResult(messages, decoderThrows)
    /\ UNCHANGED <<messages, cfgVars, sessionVars, sqlVars>>

processFlightDataMessages == ProcessEmpty \/ ProcessDecode

NextIPC == processFlightDataMessages

SpecIPC == InitIPC /\ [][NextIPC]_vars

(***************************************************************************)
(* new FlightClient(config)                                                *)
(***************************************************************************)
InitCfg ==
    /\ config \in Configs
    /\ constructed = NotConstructed
    /\ messages = <<>>
    /\ decoderCalls = <<>>
    /\ processed = Pending
    /\ channelsCreated = 0
    /\ calls = [i \in CallIds |-> IdleCall]
    /\ history = NoHistory
    /\ sql = IdleSql

ConstructorThrows ==
    /\ constructed.state = "new"
    /\ validateConfig(config) # NoError
    /\ constructed' = [NotConstructed EXCEPT !.state = "threw",
                                             !.error = validateConfig(config)]
    /\ UNCHANGED <<config, ipcVars, sessionVars, sqlVars>>

\* this.config = { plaintext: false, ...config }
ThisConfig(cfg) ==
    [cfg EXCEPT !.plaintext = IF cfg.plaintext.def THEN cfg.plaintext ELSE Some(FALSE)]

\* a constructor that connects
NewFlightClient_Eager(cfg) ==
    [state |-> "constructed",
     error |-> NoError,
     config |-> ThisConfig(cfg),
     credentials |-> createCredentials(ThisConfig(cfg)),
     metadata |-> createMetadata(ThisConfig(cfg)),
     client |-> 1]

\* the FlightClient object the constructor returns for a config it accepts
NewFlightClient(cfg) ==
    [state |-> "constructed",
     error |-> NoError,
     config |-> ThisConfig(cfg),
     credentials |-> createCredentials(ThisConfig(cfg)),
     metadata |-> createMetadata(ThisConfig(cfg)),
     client |-> 0]

ConstructorReturns ==
    /\ constructed.state = "new"
    /\ validateConfig(config) = NoError
    /\ constructed' = NewFlightClient(config)
    /\ UNCHANGED <<config, ipcVars, sessionVars, sqlVars>>

Constructor == ConstructorThrows \/ ConstructorReturns

NextCfg == Constructor

SpecCfg == InitCfg /\ [][NextCfg]_vars

(***************************************************************************)
(* The session.  It starts as a constructed FlightClient on which no       *)
(* channel exists; the caller invokes primitive operations and close() in  *)
(* any order without waiting for earlier ones, and the transport delivers  *)
(* the events of each stream in its order.                                 *)
(***************************************************************************)
\* the sessions: no credential, a bearer token, a username and password
SessionConfigs ==
    LET base == [NoConfig EXCEPT !.host = Some("localhost"),
                                 !.port = Some(4317),
                                 !.plaintext = Some(TRUE)]
    IN  {base,
         [base EXCEPT !.token = Some("tok")],
         [base EXCEPT !.username = Some(<<117>>), !.password = Some(<<112, 233>>)]}

\* the errors the transport reports in the session
GrpcErrors ==
    {GrpcError(Some(16), Some("bad credentials")),
     GrpcError(Some(4), Some("Deadline exceeded"))}

\* the authorization header of the handshake response metadata, if any
HandshakeHeaders == {NoString, Some("Bearer srv")}

\* the frames a server sends: getDataHeader_asU8 and getDataBody_asU8 always
\* give an array, possibly empty
StreamFrames ==
    {[header |-> Present(<<>>), body |-> Present(BodyBytes(1))],
     [header |-> Present(HeaderBytes(1)), body |-> Present(BodyBytes(1))]}

Init ==
    /\ config \in SessionConfigs
    /\ constructed = NewFlightClient(config)
    /\ channelsCreated = 0
    /\ calls = [i \in CallIds |-> IdleCall]
    /\ history = NoHistory
    /\ sql = IdleSql
    /\ messages = <<>>
    /\ decoderCalls = <<>>
    /\ processed = Pending

\* what new FlightServiceClient(address, credentials, options) throws when
\* it throws
ChannelError == [name |-> "Error", message |-> "", code |-> NoString, cause |-> ""]

\* connect(): the condition under which it authenticates
Credentialed(cfg) ==
    TruthyString(cfg.token) \/ (TruthyChars(cfg.username) /\ TruthyChars(cfg.password))

\* connect(): the message of the ConnectionError it wraps every failure in
FailedToConnect(cfg) ==
    "Failed to connect to " \o cfg.host.val \o ":" \o ToString(cfg.port.val)

\* doGet: this.client!.doGet(ticket, this.metadata, options)
IssueDoGet(call, this) ==
    [call EXCEPT !.pc = "stream",
                 !.stream = "open",
                 !.channel = this.client,
                 !.authorization = this.metadata]

(***************************************************************************)
(* doGet(ticket), up to its first suspension: with a channel the RPC is    *)
(* issued at once; without one connect() constructs the channel (which may *)
(* throw) and, with a credential, opens the handshake stream and awaits    *)
(* it; without a credential connect() is done and doGet resumes after the  *)
(* await.                                                                  *)
(***************************************************************************)
DoGetCallConnected(i) ==
    /\ calls[i].pc = "idle"
    /\ constructed.client # 0
    /\ calls' = [calls EXCEPT ![i] = IssueDoGet(calls[i], constructed)]
    /\ UNCHANGED <<constructed, channelsCreated, history>>

DoGetCallChannelThrows(i) ==
    /\ calls[i].pc = "idle"
    /\ constructed.client = 0
    /\ calls' = [calls EXCEPT
                    ![i].pc = "done",
                    ![i].promise =
                        Reject(@, ConnectionError(FailedToConnect(constructed.config),
                                                  ChannelError))]
    /\ UNCHANGED <<constructed, channelsCreated, history>>

DoGetCallConnect(i) ==
    /\ calls[i].pc = "idle"
    /\ constructed.client = 0
    /\ channelsCreated < MaxChannels
    /\ channelsCreated' = channelsCreated + 1
    /\ constructed' = [constructed EXCEPT !.client = channelsCreated + 1]
    /\ calls' = [calls EXCEPT ![i] =
                    IF Credentialed(constructed.config)
                    THEN [calls[i] EXCEPT !.pc = "handshake", !.hsState = "open"]
                    ELSE [calls[i] EXCEPT !.pc = "resume"]]
    /\ history' = IF Credentialed(constructed.config)
                  THEN [history EXCEPT !.handshakes = @ + 1]
                  ELSE history

DoGetCall(i) ==
    /\ UNCHANGED <<config, ipcVars, sqlVars>>
    /\ \/ DoGetCallConnected(i)
       \/ DoGetCallChannelThrows(i)
       \/ DoGetCallConnect(i)

(***************************************************************************)
(* authenticate(): the handlers of the handshake stream, until the promise *)
(* of authenticate() settles; what the stream delivers after that changes  *)
(* nothing (resolve and reject have no effect then, and response metadata  *)
(* comes once, before any response message).                               *)
(***************************************************************************)
HandshakeMetadata(i, authHeader) ==
    /\ calls[i].hsState = "open"
    /\ ~calls[i].hsMetadata
    /\ calls' = [calls EXCEPT ![i].hsMetadata = TRUE, ![i].hsAuthHeader = authHeader]
    /\ constructed' = IF authHeader.def
                      THEN [constructed EXCEPT !.metadata = authHeader]
                      ELSE constructed
    /\ history' = IF authHeader.def
                  THEN [history EXCEPT !.authorizationSets = @ + 1]
                  ELSE history
    /\ UNCHANGED <<config, ipcVars, sqlVars, channelsCreated>>

HandshakeData(i) ==
    /\ calls[i].hsState = "open"
    /\ calls[i].hsMetadata
    /\ calls' = [calls EXCEPT ![i].hsState = "resolved", ![i].pc = "resume"]
    /\ UNCHANGED <<config, ipcVars, sqlVars, constructed, channelsCreated, history>>

HandshakeEnd(i) ==
    /\ calls[i].hsState = "open"
    /\ calls' = [calls EXCEPT ![i].hsState = "resolved", ![i].pc = "resume"]
    /\ UNCHANGED <<config, ipcVars, sqlVars, constructed, channelsCreated, history>>

\* the rejection of authenticate() is caught by connect() and wrapped
HandshakeError(i, error) ==
    /\ calls[i].hsState = "open"
    /\ calls' = [calls EXCEPT
                    ![i].hsState = "rejected",
                    ![i].pc = "done",
                    ![i].promise =
                        Reject(@, ConnectionError(
                                      FailedToConnect(constructed.config),
                                      AuthenticationError(
                                          parseErrorFromGrpc(error).message)))]
    /\ UNCHANGED <<config, ipcVars, sqlVars, constructed, channelsCreated, history>>

(***************************************************************************)
(* doGet after await this.connect(): the handshake stream and its handlers *)
(* are gone with authenticate()'s promise, and the RPC is issued on        *)
(* this.client, which a close() in between has set to null.                *)
(***************************************************************************)
DoGetResume(i) ==
    /\ calls[i].pc = "resume"
    /\ LET call == [calls[i] EXCEPT !.hsMetadata = FALSE,
                                    !.hsAuthHeader = NoString]
       IN  calls' = [calls EXCEPT ![i] =
                       IF constructed.client = 0
                       THEN [call EXCEPT
                               !.pc = "done",
                               !.promise =
                                   Reject(call.promise,
                                          TypeError("Cannot read properties of null"))]
                       ELSE IssueDoGet(call, constructed)]
    /\ UNCHANGED <<config, ipcVars, sqlVars, constructed, channelsCreated, history>>

(***************************************************************************)
(* doGet: the handlers of the response stream.  An error ends the data; an *)
(* end event may still follow it.                                          *)
(***************************************************************************)
RECURSIVE FramesDelivered(_)
FramesDelivered(ids) ==
    IF ids = {} THEN 0
    ELSE LET i == CHOOSE j \in ids : TRUE
         IN  Len(calls[i].flightDataMessages) + FramesDelivered(ids \ {i})

\* data handlers that push onto one array shared by the streams in flight
DoGetData_SharedBuffer(i, flightData) ==
    /\ calls[i].stream = "open"
    /\ FramesDelivered(DOMAIN calls) < MaxStreamFrames
    /\ calls' = [j \in DOMAIN calls |->
                    IF calls[j].stream = "open"
                    THEN [calls[j] EXCEPT !.flightDataMessages = Append(@, flightData)]
                    ELSE calls[j]]
    /\ UNCHANGED <<config, ipcVars, sqlVars, constructed, channelsCreated, history>>

DoGetData(i, flightData) ==
    /\ calls[i].stream = "open"
    /\ FramesDelivered(DOMAIN calls) < MaxStreamFrames
    /\ calls' = [calls EXCEPT ![i].flightDataMessages = Append(@, flightData)]
    /\ UNCHANGED <<config, ipcVars, sqlVars, constructed, channelsCreated, history>>

\* the error handler resolving with what was buffered
DoGetError_ResolvesPartial(i, error) ==
    /\ calls[i].stream = "open"
    /\ calls' = [calls EXCEPT
                    ![i].pc = "done",
                    ![i].stream = "errored",
                    ![i].promise =
                        Resolve(@, tableFromIPC(convertFlightDataToIPC(
                                       calls[i].flightDataMessages)))]
    /\ UNCHANGED <<config, ipcVars, sqlVars, constructed, channelsCreated, history>>

DoGetError(i, error) ==
    /\ calls[i].stream = "open"
    /\ calls' = [calls EXCEPT ![i].pc = "done",
                              ![i].stream = "errored",
                              ![i].promise = Reject(@, parseErrorFromGrpc(error))]
    /\ UNCHANGED <<config, ipcVars, sqlVars, constructed, channelsCreated, history>>

DoGetEnd(i) ==
    /\ calls[i].stream \in {"open", "errored"}
    /\ \E decoderThrows \in BOOLEAN :
          LET result == processFlightDataMessagesResult(calls[i].flightDataMessages,
                                                        decoderThrows)
          IN  calls' = [calls EXCEPT
                  ![i].pc = "done",
                  ![i].stream = IF @ = "open" THEN "ended" ELSE "erroredEnded",
                  ![i].promise =
                      IF result.state = "returned"
                      THEN Resolve(@, result.table)
                      ELSE Reject(@, FlightError("Failed to parse Arrow data: Error",
                                                 NoString))]
    /\ UNCHANGED <<config, ipcVars, sqlVars, constructed, channelsCreated, history>>

(***************************************************************************)
(* The caller has the outcome of a settled doGet whose stream is over and  *)
(* may invoke the next operation in its place.                             *)
(***************************************************************************)
DoGetReturn(i) ==
    /\ calls[i].pc = "done"
    /\ calls[i].promise.state # "pending"
    /\ calls' = [calls EXCEPT ![i] = IdleCall]
    /\ UNCHANGED <<config, ipcVars, sqlVars, constructed, channelsCreated, history>>

(***************************************************************************)
(* close()                                                                 *)
(***************************************************************************)
\* close() without the test of this.client
Close_Unguarded ==
    /\ constructed' = [constructed EXCEPT !.client = 0]
    /\ history' = IF constructed.client = 0
                  THEN [history EXCEPT !.closeThrew = TRUE]
                  ELSE history
    /\ UNCHANGED <<config, ipcVars, sqlVars, channelsCreated, calls>>

Close ==
    /\ constructed' = IF constructed.client # 0
                      THEN [constructed EXCEPT !.client = 0]
                      ELSE constructed
    /\ UNCHANGED <<config, ipcVars, sqlVars, channelsCreated, calls, history>>

Next ==
    \/ \E i \in CallIds : DoGetCall(i)
    \/ \E i \in CallIds, authHeader \in HandshakeHeaders : HandshakeMetadata(i, authHeader)
    \/ \E i \in CallIds : HandshakeData(i)
    \/ \E i \in CallIds : HandshakeEnd(i)
    \/ \E i \in CallIds, error \in GrpcErrors : HandshakeError(i, error)
    \/ \E i \in CallIds : DoGetResume(i)
    \/ \E i \in CallIds, flightData \in StreamFrames : DoGetData(i, flightData)
    \/ \E i \in CallIds, error \in GrpcErrors : DoGetError(i, error)
    \/ \E i \in CallIds : DoGetEnd(i)
    \/ \E i \in CallIds : DoGetReturn(i)
    \/ Close

Spec == Init /\ [][Next]_vars

(***************************************************************************)
(* The session under concurrent use: the caller starts several operations  *)
(* on a fresh session without awaiting any of them, and does not close the *)
(* session while they run.                                                 *)
(***************************************************************************)
OpIds == 1..MaxOps

InitConcurrent ==
    /\ config \in SessionConfigs
    /\ constructed = NewFlightClient(config)
    /\ channelsCreated = 0
    /\ calls = [i \in OpIds |-> IdleCall]
    /\ history = NoHistory
    /\ sql = IdleSql
    /\ messages = <<>>
    /\ decoderCalls = <<>>
    /\ processed = Pending

NextConcurrent ==
    \/ \E i \in OpIds : DoGetCall(i)
    \/ \E i \in OpIds, authHeader \in HandshakeHeaders : HandshakeMetadata(i, authHeader)
    \/ \E i \in OpIds : HandshakeData(i)
    \/ \E i \in OpIds : HandshakeEnd(i)
    \/ \E i \in OpIds, error \in GrpcErrors : HandshakeError(i, error)
    \/ \E i \in OpIds : DoGetResume(i)
    \/ \E i \in OpIds, flightData \in StreamFrames : DoGetData(i, flightData)
    \/ \E i \in OpIds, error \in GrpcErrors : DoGetError(i, error)
    \/ \E i \in OpIds : DoGetEnd(i)

SpecConcurrent == InitConcurrent /\ [][NextConcurrent]_vars

(***************************************************************************)
(* The SQL command layer: the invocations of the methods of FlightSQLClient *)
(* on a session, one after the other, each from its call to its settling.  *)
(* rpcs counts the calls of the method to each primitive operation.        *)
(***************************************************************************)
InitSQL ==
    /\ config = SqlConfig
    /\ constructed = NewFlightClient(config)
    /\ channelsCreated = 0
    /\ calls = [i \in CallIds |-> IdleCall]
    /\ history = NoHistory
    /\ messages = <<>>
    /\ decoderCalls = <<>>
    /\ processed = Pending
    /\ sql = IdleSql

\* the primitive operation a method calls first
FirstPrimitive(method) ==
    CASE method \in ActionMethods  -> "doAction"
      [] method = "getQuerySchema" -> "getSchema"
      [] OTHER                     -> "getFlightInfo"

\* the invocation after a step of its method: a throw goes through the catch
\* block of the method and rejects, a return resolves, a do-get is awaited
SqlStep(s, step) ==
    CASE step.do = "throw" ->
            [s EXCEPT !.pc = "done",
                      !.caught = step.error,
                      !.promise = [state |-> "rejected", value |-> <<>>,
                                   error |-> CatchBlock(s.method, step.error)]]
      [] step.do = "return" ->
            [s EXCEPT !.pc = "done",
                      !.promise = [state |-> "resolved", value |-> step.value,
                                   error |-> NoError]]
      [] step.do = "doGet" ->
            [s EXCEPT !.pc = "doGet",
                      !.ticket = step.ticket,
                      !.rpcs.doGet = @ + 1]

\* the descriptors executePrepared has passed to getFlightInfo, after this
\* call
Requested(s, method, args) ==
    IF method = "executePrepared"
    THEN s.requested \cup {[handle |-> args.handle,
                            descriptor |-> Request(method, args),
                            afterClose |-> args.handle \in s.closed]}
    ELSE s.requested

\* a client that remembers the handles it closed and refuses them
SqlCall_RefusesClosed(method, args) ==
    /\ sql.pc = "idle"
    /\ sql' = IF method = "executePrepared" /\ args.handle \in sql.closed
              THEN SqlStep([sql EXCEPT !.method = method, !.args = args],
                           Throw(FlightSQLError("Prepared statement is closed")))
              ELSE [sql EXCEPT !.method = method,
                               !.args = args,
                               !.pc = FirstPrimitive(method),
                               !.request = Request(method, args),
                               !.rpcs[FirstPrimitive(method)] = @ + 1,
                               !.requested = Requested(sql, method, args)]
    /\ UNCHANGED <<ipcVars, cfgVars, sessionVars>>

SqlCall(method, args) ==
    /\ sql.pc = "idle"
    /\ sql' = [sql EXCEPT !.method = method,
                          !.args = args,
                          !.pc = FirstPrimitive(method),
                          !.request = Request(method, args),
                          !.rpcs[FirstPrimitive(method)] = @ + 1,
                          !.requested = Requested(sql, method, args)]
    /\ UNCHANGED <<ipcVars, cfgVars, sessionVars>>

\* the awaited primitive fails before it has issued its RPC
PrimitiveThrows(error) ==
    /\ sql.pc \in {"getFlightInfo", "doGet", "doAction", "getSchema"}
    /\ sql' = SqlStep([sql EXCEPT !.rejection = error], Throw(error))
    /\ UNCHANGED <<ipcVars, cfgVars, sessionVars>>

\* a primitive that issues its RPC again after a transport error
PrimitiveTransportError_Retries(error) ==
    /\ sql.pc \in {"getFlightInfo", "doGet", "doAction", "getSchema"}
    /\ sql' = IF sql.rpcs[sql.pc] < 2
              THEN [sql EXCEPT !.rpcs[sql.pc] = @ + 1]
              ELSE SqlStep([sql EXCEPT !.grpcError = Some(error),
                                       !.rejection = parseErrorFromGrpc(error)],
                           Throw(parseErrorFromGrpc(error)))
    /\ UNCHANGED <<ipcVars, cfgVars, sessionVars>>

\* the transport reports an error to the RPC of the awaited primitive, which
\* rejects with parseErrorFromGrpc(error)
PrimitiveTransportError(error) ==
    /\ sql.pc \in {"getFlightInfo", "doGet", "doAction", "getSchema"}
    /\ sql' = SqlStep([sql EXCEPT !.grpcError = Some(error),
                                  !.rejection = parseErrorFromGrpc(error)],
                      Throw(parseErrorFromGrpc(error)))
    /\ UNCHANGED <<ipcVars, cfgVars, sessionVars>>

GetFlightInfoResponse(flightInfo) ==
    /\ sql.pc = "getFlightInfo"
    /\ sql' = SqlStep([sql EXCEPT !.flightInfo = Some(flightInfo)],
                      AfterFlightInfo(sql.method, flightInfo))
    /\ UNCHANGED <<ipcVars, cfgVars, sessionVars>>

DoGetResolves(table) ==
    /\ sql.pc = "doGet"
    /\ sql' = SqlStep(sql, AfterDoGet(sql.method, table))
    /\ UNCHANGED <<ipcVars, cfgVars, sessionVars>>

DoGetParseFails ==
    /\ sql.pc = "doGet"
    /\ sql' = SqlStep([sql EXCEPT !.rejection = ParseFailure], Throw(ParseFailure))
    /\ UNCHANGED <<ipcVars, cfgVars, sessionVars>>

\* the do-action stream ends: the server has carried out the action
DoActionResolves(results) ==
    /\ sql.pc = "doAction"
    /\ sql' = SqlStep([sql EXCEPT
                          !.results = Some(results),
                          !.closed = IF sql.method = "closePrepared"
                                     THEN @ \cup {sql.args.handle}
                                     ELSE @],
                      IF sql.method = "prepare" THEN AfterPrepare(results)
                                                ELSE Return(<<>>))
    /\ UNCHANGED <<ipcVars, cfgVars, sessionVars>>

GetSchemaResponse(decodes) ==
    /\ sql.pc = "getSchema"
    /\ sql' = IF decodes
              THEN SqlStep(sql, Return(<<"schema">>))
              ELSE SqlStep([sql EXCEPT !.rejection = SchemaParseFailure],
                           Throw(SchemaParseFailure))
    /\ UNCHANGED <<ipcVars, cfgVars, sessionVars>>

\* the caller has the outcome and may invoke the next method
SqlReturn ==
    /\ sql.pc = "done"
    /\ sql' = [IdleSql EXCEPT !.closed = sql.closed, !.requested = sql.requested]
    /\ UNCHANGED <<ipcVars, cfgVars, sessionVars>>

NextSQL ==
    \/ \E method \in Methods : \E args \in SqlArgs(method) : SqlCall(method, args)
    \/ \E error \in PrimitiveThrown : PrimitiveThrows(error)
    \/ \E error \in SqlGrpcErrors : PrimitiveTransportError(error)
    \/ \E flightInfo \in FlightInfos : GetFlightInfoResponse(flightInfo)
    \/ \E table \in SqlTables : DoGetResolves(table)
    \/ DoGetParseFails
    \/ \E results \in ActionResults : DoActionResolves(results)
    \/ \E decodes \in BOOLEAN : GetSchemaResponse(decodes)
    \/ SqlReturn

SpecSQL == InitSQL /\ [][NextSQL]_vars

(***************************************************************************)
(* The streaming primitives doAction, listFlights, listActions and doPut   *)
(* on a session without a credential: the caller invokes one, the          *)
(* transport delivers the events of its stream, and after the invocation   *)
(* is over the caller invokes the next.                                    *)
(*                                                                         *)
(* An invocation: its kind and request message, where it stands, the       *)
(* channel and authorization of its RPC, the state of the response stream, *)
(* what the transport delivered on it (delivered, grpcError), the array    *)
(* its data handler pushes to (results) and the promise.  For doPut: the   *)
(* frames the input yields and whether it then throws instead of           *)
(* completing, where the loop over the input stands (writer), the frames   *)
(* passed to call.write and the number of calls of call.end.               *)
(***************************************************************************)
RpcPending == [state |-> "pending", value |-> <<>>, error |-> NoError]

RpcResolve(promise, value) ==
    IF promise.state = "pending"
    THEN [state |-> "resolved", value |-> value, error |-> NoError]
    ELSE promise

RpcReject(promise, error) ==
    IF promise.state = "pending"
    THEN [state |-> "rejected", value |-> <<>>, error |-> error]
    ELSE promise

IdleRpc ==
    [kind |-> "none", request |-> "", pc |-> "idle", channel |-> 0,
     authorization |-> NoString, stream |-> "none", delivered |-> <<>>,
     grpcError |-> NoGrpcError, results |-> <<>>, input |-> <<>>,
     inputThrows |-> FALSE, writer |-> "none", written |-> <<>>, ended |-> 0,
     promise |-> RpcPending]

\* the primitives that buffer what the server streams
ListKinds == {"doAction", "listFlights", "listActions"}

\* the messages a server streams: Result, FlightInfo or ActionType objects
Results == {"r1", "r2"}

\* the frames the input of a doPut yields
InputFrames == {"f1", "f2"}

InputStreams == SeqsUpTo(InputFrames, MaxInputFrames)

\* the argument of the caller: an action, an optional criteria, nothing
Arguments(kind) ==
    IF kind = "doAction" THEN {Some("action")}
    ELSE IF kind = "listFlights" THEN {NoString, Some("criteria")}
    ELSE {NoString}

\* the request message of the RPC: the action, criteria || new Criteria(),
\* new Empty(); doPut sends only the call metadata
RequestMessage(kind, argument) ==
    IF kind = "doAction" THEN argument.val
    ELSE IF kind = "listFlights"
         THEN (IF TruthyString(argument) THEN argument.val ELSE "new Criteria()")
    ELSE IF kind = "listActions" THEN "new Empty()"
    ELSE ""

InitRpc ==
    /\ config = SqlConfig
    /\ constructed = NewFlightClient(config)
    /\ channelsCreated = 0
    /\ calls = [i \in CallIds |-> IdleRpc]
    /\ history = NoHistory
    /\ sql = IdleSql
    /\ messages = <<>>
    /\ decoderCalls = <<>>
    /\ processed = Pending

\* this.client!.doAction(action, this.metadata) and the like; doPut starts
\* the loop over its input right after
IssueRpc(call, this) ==
    IF this.client = 0
    THEN [call EXCEPT !.pc = "done",
                      !.promise = RpcReject(@, TypeError("Cannot read properties of null"))]
    ELSE [call EXCEPT !.pc = "stream",
                      !.stream = "open",
                      !.channel = this.client,
                      !.authorization = this.metadata,
                      !.writer = IF call.kind = "doPut" THEN "running" ELSE "none"]

(***************************************************************************)
(* The primitive up to its first suspension: with a channel the RPC is     *)
(* issued at once; without one connect() constructs the channel, which may *)
(* throw, and the primitive resumes after the await.                       *)
(***************************************************************************)
RpcCallConnected(i, call) ==
    /\ constructed.client # 0
    /\ calls' = [calls EXCEPT ![i] = IssueRpc(call, constructed)]
    /\ UNCHANGED <<constructed, channelsCreated>>

RpcCallChannelThrows(i, call) ==
    /\ constructed.client = 0
    /\ calls' = [calls EXCEPT ![i] =
                    [call EXCEPT
                        !.pc = "done",
                        !.promise =
                            RpcReject(@, ConnectionError(
                                             FailedToConnect(constructed.config),
                                             ChannelError))]]
    /\ UNCHANGED <<constructed, channelsCreated>>

RpcCallConnect(i, call) ==
    /\ constructed.client = 0
    /\ channelsCreated < MaxChannels
    /\ channelsCreated' = channelsCreated + 1
    /\ constructed' = [constructed EXCEPT !.client = channelsCreated + 1]
    /\ calls' = [calls EXCEPT ![i] = [call EXCEPT !.pc = "resume"]]

RpcCall(i, kind, argument, input, inputThrows) ==
    /\ calls[i].pc = "idle"
    /\ ~Credentialed(constructed.config)
    /\ UNCHANGED <<config, ipcVars, sqlVars, history>>
    /\ LET call == [IdleRpc EXCEPT !.kind = kind,
                                   !.request = RequestMessage(kind, argument),
                                   !.input = input,
                                   !.inputThrows = inputThrows]
       IN  \/ RpcCallConnected(i, call)
           \/ RpcCallChannelThrows(i, call)
           \/ RpcCallConnect(i, call)

doAction(i, action) == RpcCall(i, "doAction", action, <<>>, FALSE)

listFlights(i, criteria) == RpcCall(i, "listFlights", criteria, <<>>, FALSE)

listActions(i) == RpcCall(i, "listActions", NoString, <<>>, FALSE)

doPut(i, stream, streamThrows) == RpcCall(i, "doPut", NoString, stream, streamThrows)

\* after await this.connect()
RpcResume(i) ==
    /\ calls[i].pc = "resume"
    /\ calls' = [calls EXCEPT ![i] = IssueRpc(calls[i], constructed)]
    /\ UNCHANGED <<config, ipcVars, sqlVars, constructed, channelsCreated, history>>

(***************************************************************************)
(* doAction, listFlights, listActions: the handlers of the response        *)
(* stream.  doPut registers no data handler.                               *)
(***************************************************************************)
\* a data handler that puts the newest result first
RpcData_Unshift(i, result) ==
    /\ calls[i].kind \in ListKinds
    /\ calls[i].stream = "open"
    /\ Len(calls[i].delivered) < MaxResults
    /\ calls' = [calls EXCEPT ![i].delivered = Append(@, result),
                              ![i].results = <<result>> \o @]
    /\ UNCHANGED <<config, ipcVars, sqlVars, constructed, channelsCreated, history>>

RpcData(i, result) ==
    /\ calls[i].kind \in ListKinds
    /\ calls[i].stream = "open"
    /\ Len(calls[i].delivered) < MaxResults
    /\ calls' = [calls EXCEPT ![i].delivered = Append(@, result),
                              ![i].results = Append(@, result)]
    /\ UNCHANGED <<config, ipcVars, sqlVars, constructed, channelsCreated, history>>

(***************************************************************************)
(* All four: the error and end handlers.  An error ends the data; an end   *)
(* event may still follow it.  doPut resolves with undefined.              *)
(***************************************************************************)
RpcError(i, error) ==
    /\ calls[i].stream = "open"
    /\ calls' = [calls EXCEPT
                    ![i].pc = "done",
                    ![i].stream = "errored",
                    ![i].grpcError = Some(error),
                    ![i].promise = RpcReject(@, parseErrorFromGrpc(error))]
    /\ UNCHANGED <<config, ipcVars, sqlVars, constructed, channelsCreated, history>>

RpcEnd(i) ==
    /\ calls[i].stream \in {"open", "errored"}
    /\ calls' = [calls EXCEPT
                    ![i].pc = "done",
                    ![i].stream = IF @ = "open" THEN "ended" ELSE "erroredEnded",
                    ![i].promise = RpcResolve(@, calls[i].results)]
    /\ UNCHANGED <<config, ipcVars, sqlVars, constructed, channelsCreated, history>>

(***************************************************************************)
(* doPut: the loop over the input, one step per frame; it runs on whatever *)
(* the stream and the promise have come to.  When the input completes the  *)
(* loop ends and call.end() is called; when the input throws, the catch    *)
(* block rejects and call.end() is not called.                             *)
(***************************************************************************)
\* a loop that forwards the frames after the first only
PutWrite_SkipsFirst(i) ==
    /\ calls[i].writer = "running"
    /\ Len(calls[i].written) < Len(calls[i].input)
    /\ calls' = [calls EXCEPT ![i].written =
                    IF Len(@) = 0 /\ Len(calls[i].input) > 1
                    THEN <<calls[i].input[2]>>
                    ELSE Append(@, calls[i].input[Len(@) + 1])]
    /\ UNCHANGED <<config, ipcVars, sqlVars, constructed, channelsCreated, history>>

PutWrite(i) ==
    /\ calls[i].writer = "running"
    /\ Len(calls[i].written) < Len(calls[i].input)
    /\ calls' = [calls EXCEPT ![i].written = Append(@, calls[i].input[Len(@) + 1])]
    /\ UNCHANGED <<config, ipcVars, sqlVars, constructed, channelsCreated, history>>

PutEnd(i) ==
    /\ calls[i].writer = "running"
    /\ Len(calls[i].written) = Len(calls[i].input)
    /\ ~calls[i].inputThrows
    /\ calls' = [calls EXCEPT ![i].writer = "done", ![i].ended = @ + 1]
    /\ UNCHANGED <<config, ipcVars, sqlVars, constructed, channelsCreated, history>>

PutInputThrows(i) ==
    /\ calls[i].writer = "running"
    /\ Len(calls[i].written) = Len(calls[i].input)
    /\ calls[i].inputThrows
    /\ calls' = [calls EXCEPT
                    ![i].writer = "threw",
                    ![i].promise =
                        RpcReject(@, FlightError("Failed to write data: Error", NoString))]
    /\ UNCHANGED <<config, ipcVars, sqlVars, constructed, channelsCreated, history>>

(***************************************************************************)
(* The caller has the outcome of an invocation that is over (its promise   *)
(* settled, its stream ended or never opened, the loop of a doPut left)    *)
(* and may invoke the next primitive in its place.                         *)
(***************************************************************************)
RpcReturn(i) ==
    /\ calls[i].pc = "done"
    /\ calls[i].promise.state # "pending"
    /\ calls[i].stream \in {"none", "ended", "erroredEnded"}
    /\ calls[i].writer # "running"
    /\ calls' = [calls EXCEPT ![i] = IdleRpc]
    /\ UNCHANGED <<config, ipcVars, sqlVars, constructed, channelsCreated, history>>

NextRpc ==
    \/ \E i \in CallIds, action \in Arguments("doAction") : doAction(i, action)
    \/ \E i \in CallIds, criteria \in Arguments("listFlights") : listFlights(i, criteria)
    \/ \E i \in CallIds : listActions(i)
    \/ \E i \in CallIds, stream \in InputStreams, streamThrows \in BOOLEAN :
          doPut(i, stream, streamThrows)
    \/ \E i \in CallIds : RpcResume(i)
    \/ \E i \in CallIds, result \in Results : RpcData(i, result)
    \/ \E i \in CallIds, error \in GrpcErrors : RpcError(i, error)
    \/ \E i \in CallIds : RpcEnd(i)
    \/ \E i \in CallIds : PutWrite(i)
    \/ \E i \in CallIds : PutEnd(i)
    \/ \E i \in CallIds : PutInputThrows(i)
    \/ \E i \in CallIds : RpcReturn(i)

SpecRpc == InitRpc /\ [][NextRpc]_vars

(***************************************************************************)
(* What the reassembly emitted: the blocks handed to the decoder, and the  *)
(* frame each came from (the k-th block comes from the k-th frame whose    *)
(* header is present and not empty).                                       *)
(***************************************************************************)
Emitted == IF decoderCalls = <<>> THEN <<>> ELSE decoderCalls[1]

HasHeader(m) == m.header.present /\ Len(m.header.bytes) > 0

Kept(ms) == SelectSeq(ms, HasHeader)

BodyOf(m) == IF m.body.present THEN m.body.bytes ELSE <<>>

RECURSIVE Concat(_)
Concat(parts) == IF parts = <<>> THEN <<>> ELSE Head(parts) \o Concat(Tail(parts))

RemoveAt(s, i) == SubSeq(s, 1, i - 1) \o SubSeq(s, i + 1, Len(s))

Zeros(n) == [i \in 1..n |-> 0]

\* the zero bytes between header and body of the k-th emitted block
PaddingOf(k) ==
    Len(Emitted[k]) - 8 - Len(Kept(messages)[k].header.bytes)
        - Len(BodyOf(Kept(messages)[k]))

\* the offset of the k-th emitted block in the concatenated stream
RECURSIVE StartOffset(_)
StartOffset(k) == IF k = 1 THEN 0 ELSE StartOffset(k - 1) + Len(Emitted[k - 1])

RECURSIVE BodyBytesBefore(_)
BodyBytesBefore(k) ==
    IF k = 1 THEN 0
    ELSE BodyBytesBefore(k - 1) + Len(BodyOf(Kept(messages)[k - 1]))

LittleEndian32(n) ==
    <<n % 256, (n \div 256) % 256, (n \div 65536) % 256, (n \div 16777216) % 256>>

\* C1: for every emitted message block, (4 + 4 + len(header) + padding) mod 8
\* is 0 and 0 <= padding < 8, padding being the number of bytes between the
\* header and the body.
C1_PaddingInvariant ==
    \A k \in 1..Len(Emitted) :
        LET h == Kept(messages)[k].header.bytes
        IN  /\ (4 + 4 + Len(h) + PaddingOf(k)) % 8 = 0
            /\ 0 <= PaddingOf(k)
            /\ PaddingOf(k) < 8

C1_Witness ==
    /\ \E k \in 1..Len(Emitted) : PaddingOf(k) = 7
    /\ \E ms \in FrameSeqs : Len(ms) = 1 /\ HasHeader(ms[1])
                                /\ Len(ms[1].header.bytes) = 8

\* C2 as stated: the padding brings length prefix + header, 4 + len(header) +
\* padding, to a multiple of 8.
C2_PrefixPlusHeaderAligned ==
    \A k \in 1..Len(Emitted) :
        (4 + Len(Kept(messages)[k].header.bytes) + PaddingOf(k)) % 8 = 0

\* C2 amended: the padding is all zero bytes and brings marker + length prefix
\* + header, 8 + len(header) + padding, to a multiple of 8; prefix + header +
\* padding alone is 4 mod 8.
C2_MarkerPrefixHeaderAligned ==
    \A k \in 1..Len(Emitted) :
        LET n == Len(Kept(messages)[k].header.bytes)
        IN  /\ (n + PaddingOf(k)) % 8 = 0
            /\ (4 + n + PaddingOf(k)) % 8 = 4
            /\ PaddingOf(k) >= 0
            /\ SubSeq(Emitted[k], 8 + n + 1, 8 + n + PaddingOf(k)) = Zeros(PaddingOf(k))

C2_Witness ==
    \E k \in 1..Len(Emitted) :
        /\ PaddingOf(k) = 4
        /\ Len(BodyOf(Kept(messages)[k])) > 0

\* C3: the block of a frame with non-empty header h and body b is the 4-byte
\* marker, len(h) as 4 little-endian bytes, h, the padding zeros, then b and
\* nothing more; it is 8 + len(h) + padding + len(b) bytes long.
C3_BlockLayout ==
    decoderCalls # <<>> =>
    /\ Len(Emitted) = Len(Kept(messages))
    /\ \A k \in 1..Len(Emitted) :
        LET h == Kept(messages)[k].header.bytes
            b == BodyOf(Kept(messages)[k])
        IN  \E padding \in 0..7 :
                /\ (8 + Len(h) + padding) % 8 = 0
                /\ Len(Emitted[k]) = 8 + Len(h) + padding + Len(b)
                /\ Emitted[k] = <<255, 255, 255, 255>> \o LittleEndian32(Len(h))
                                    \o h \o Zeros(padding) \o b

C3_Witness ==
    \E k \in 1..Len(Emitted) :
        /\ PaddingOf(k) > 0
        /\ Len(BodyOf(Kept(messages)[k])) > 0
        /\ Len(Kept(messages)[k].header.bytes) > 1

\* C4: the first 4 bytes of every emitted block, read little-endian, are
\* 0xFFFFFFFF.
C4_ContinuationMarker ==
    \A k \in 1..Len(Emitted) :
        /\ Len(Emitted[k]) >= 4
        /\ Emitted[k][1] + 256 * Emitted[k][2] = 65535
        /\ Emitted[k][3] + 256 * Emitted[k][4] = 65535

C4_Witness ==
    /\ Len(Emitted) >= 2
    /\ \E k \in 1..Len(Emitted) : ~Kept(messages)[k].body.present
    /\ \E k \in 1..Len(Emitted) : Len(BodyOf(Kept(messages)[k])) > 0

\* C5: a frame whose header is absent or empty adds no byte to the stream,
\* whatever its body, and the stream is the one the other frames give without
\* it.
C5_FrameSkip ==
    decoderCalls # <<>> =>
        /\ \A i \in 1..Len(messages) :
              ~HasHeader(messages[i]) =>
                  Concat(Emitted) = Concat(convertFlightDataToIPC(RemoveAt(messages, i)))
        /\ (\A i \in 1..Len(messages) : ~HasHeader(messages[i])) => Concat(Emitted) = <<>>
        /\ Len(Emitted) = Len(Kept(messages))

C5_Witness ==
    /\ decoderCalls # <<>>
    /\ Len(messages) = 3
    /\ HasHeader(messages[1])
    /\ ~messages[2].header.present
    /\ Len(BodyOf(messages[2])) > 0
    /\ HasHeader(messages[3])
    /\ \E ms \in FrameSeqs :
          Len(ms) = 1 /\ ms[1].header.present /\ ms[1].header.bytes = <<>>
            /\ Len(BodyOf(ms[1])) > 0

\* the padding and block of a frame framed by hand, as the format asks
ReferencePadding(n) == CHOOSE p \in 0..7 : (8 + n + p) % 8 = 0

ReferenceBlock(m) ==
    <<255, 255, 255, 255>> \o LittleEndian32(Len(m.header.bytes)) \o m.header.bytes
        \o Zeros(ReferencePadding(Len(m.header.bytes))) \o BodyOf(m)

RECURSIVE ReferenceStream(_)
ReferenceStream(ms) ==
    IF ms = <<>> THEN <<>>
    ELSE (IF HasHeader(Head(ms)) THEN ReferenceBlock(Head(ms)) ELSE <<>>)
            \o ReferenceStream(Tail(ms))

\* C6: the reassembled stream is the concatenation, in arrival order, of the
\* hand-framed blocks of exactly the frames with a non-empty header.
C6_StreamIsReferenceFraming ==
    decoderCalls # <<>> =>
        /\ Concat(Emitted) = ReferenceStream(messages)
        /\ Len(Emitted) = Len(Kept(messages))
        /\ \A k \in 1..Len(Emitted) : Emitted[k] = ReferenceBlock(Kept(messages)[k])

C6_Witness ==
    /\ Len(Emitted) = 2
    /\ Len(messages) = 3
    /\ Emitted[1] # Emitted[2]

\* C7 as stated: every emitted block starts at a multiple of 8 in the stream.
C7_EveryBlockAligned ==
    \A k \in 1..Len(Emitted) : StartOffset(k) % 8 = 0

\* C7 amended: a block starts at an offset that is, mod 8, the total length of
\* the bodies before it (a body is not padded); so every block whose preceding
\* bodies are all a multiple of 8 long starts at a multiple of 8, and inside a
\* block the body starts at a multiple of 8.
C7_AlignedUpToBodies ==
    \A k \in 1..Len(Emitted) :
        /\ StartOffset(k) % 8 = BodyBytesBefore(k) % 8
        /\ (\A j \in 1..(k - 1) : Len(BodyOf(Kept(messages)[j])) % 8 = 0)
              => StartOffset(k) % 8 = 0
        /\ (Len(Emitted[k]) - Len(BodyOf(Kept(messages)[k]))) % 8 = 0

C7_Witness ==
    /\ Len(Emitted) = 3
    /\ Len(BodyOf(Kept(messages)[1])) = 8
    /\ Len(BodyOf(Kept(messages)[2])) = 0
    /\ Len(Kept(messages)[1].header.bytes) = 1
    /\ StartOffset(3) = 40

(***************************************************************************)
(* Claims about doGet.                                                     *)
(***************************************************************************)
\* C8: a do-get stream that ends having delivered no frame resolves doGet
\* with an empty table without schema; doGet does not fail.
C8_EmptyStreamResolvesEmpty ==
    \A i \in CallIds :
        (calls[i].stream = "ended" /\ calls[i].flightDataMessages = <<>>) =>
            /\ calls[i].promise.state = "resolved"
            /\ ~calls[i].promise.table.hasSchema
            /\ calls[i].promise.table.ipc = <<>>
            /\ calls[i].promise.error = NoError

C8_Witness ==
    \E i \in CallIds :
        /\ calls[i].stream = "ended"
        /\ calls[i].flightDataMessages = <<>>
        /\ calls[i].promise.state = "resolved"
        /\ calls[i].hsState = "resolved"
        /\ constructed.metadata = Some("Bearer srv")

(***************************************************************************)
(* Claims about the constructor.                                           *)
(***************************************************************************)
\* a config the construction contract refuses: host empty or missing, or port
\* missing, 0 or negative
RefusedConfig(cfg) ==
    \/ ~cfg.host.def
    \/ cfg.host.val = ""
    \/ ~cfg.port.def
    \/ cfg.port.val = 0
    \/ cfg.port.val < 0

\* C9 as stated: a refused config makes the constructor fail with a
\* ConfigurationError and leaves no session; any other config constructs.
C9_FailsWithConfigurationError ==
    constructed.state # "new" =>
        IF RefusedConfig(config)
        THEN /\ constructed.state = "threw"
             /\ constructed.error.name = "ConfigurationError"
        ELSE constructed.state = "constructed"

\* C9 amended: a refused config makes the constructor fail with the base
\* FlightError ('Host is required', else 'Valid port number is required') and
\* leaves no session; a non-empty host with a positive port constructs.
C9_FailsWithFlightError ==
    constructed.state # "new" =>
        IF RefusedConfig(config)
        THEN /\ constructed.state = "threw"
             /\ constructed.error.name = "FlightError"
             /\ constructed.error.message =
                    (IF ~config.host.def \/ config.host.val = ""
                     THEN "Host is required"
                     ELSE "Valid port number is required")
             /\ constructed.client = 0
             /\ constructed.credentials = ""
             /\ constructed.metadata = NoString
        ELSE /\ constructed.state = "constructed"
             /\ constructed.error = NoError

C9_Witness ==
    /\ constructed.state = "threw"
    /\ config.host = Some("localhost")
    /\ config.port = Some(0)
    /\ \E c \in Configs : c.host = Some("localhost") /\ c.port = Some(4317)
    /\ \E c \in Configs : c.host = NoString
    /\ \E c \in Configs : c.port = Some(-1)

\* C10: the transport security is plaintext if plaintext is set, whatever
\* tlsSkipVerify is; else TLS without verification if tlsSkipVerify is set;
\* else verified TLS.
C10_TransportSecurityPrecedence ==
    constructed.state = "constructed" =>
        constructed.credentials =
            (CASE config.plaintext = Some(TRUE) -> "insecure"
               [] config.plaintext # Some(TRUE) /\ config.tlsSkipVerify = Some(TRUE)
                    -> "ssl-skip-verify"
               [] OTHER -> "ssl")

C10_Witness ==
    /\ constructed.state = "constructed"
    /\ config.plaintext = Some(TRUE)
    /\ config.tlsSkipVerify = Some(TRUE)
    /\ constructed.credentials = "insecure"

\* base64 of the UTF-8 bytes of username ":" password, for the usernames u,
\* user and the passwords p\'e, pass (known answers)
KnownBase64(username, password) ==
    CASE username = <<117>> /\ password = <<112, 233>> -> "dTpww6k="
      [] username = <<117>> /\ password = <<112, 97, 115, 115>> -> "dTpwYXNz"
      [] username = <<117, 115, 101, 114>> /\ password = <<112, 233>> -> "dXNlcjpww6k="
      [] username = <<117, 115, 101, 114>> /\ password = <<112, 97, 115, 115>>
            -> "dXNlcjpwYXNz"

\* C11: the initial authorization value is "Bearer <token>" if a token is
\* configured, whatever username and password are; else "Basic " followed by
\* base64(username:password) if username and password are both non-empty;
\* else there is none.
C11_InitialAuthorization ==
    constructed.state = "constructed" =>
        constructed.metadata =
            (IF config.token.def /\ config.token.val # ""
             THEN Some("Bearer " \o config.token.val)
             ELSE IF /\ config.username.def /\ config.username.val # <<>>
                     /\ config.password.def /\ config.password.val # <<>>
                  THEN Some("Basic " \o KnownBase64(config.username.val,
                                                    config.password.val))
                  ELSE NoString)

C11_Witness ==
    /\ constructed.state = "constructed"
    /\ config.token = Some("tok")
    /\ config.username = Some(<<117, 115, 101, 114>>)
    /\ config.password = Some(<<112, 233>>)
    /\ constructed.metadata = Some("Bearer tok")
    /\ \E c \in Configs :
          /\ validateConfig(c) = NoError
          /\ ~c.token.def /\ c.username = Some(<<117>>) /\ c.password = NoChars
    /\ \E c \in Configs :
          /\ validateConfig(c) = NoError
          /\ c.token = Some("") /\ c.username = Some(<<117>>)
          /\ c.password = Some(<<112, 97, 115, 115>>)

(***************************************************************************)
(* Claims about the mapping of transport errors and the command layer.     *)
(***************************************************************************)
\* the decimal string of the status codes the transport reports here
CodeString(n) ==
    CASE n = 0 -> "0" [] n = 4 -> "4" [] n = 14 -> "14" [] n = 16 -> "16"

\* C12 as stated: a transport error with code 16 is mapped to an
\* AuthenticationError, one with code 14 to a ServiceUnavailableError, any
\* other to a generic error with the code as a string (undefined without a
\* code) and the transport's message ('Unknown error' without one).
C12_MapsToTypedErrors ==
    sql.grpcError.def =>
        LET error == sql.grpcError.val
            mapped == sql.rejection
        IN  CASE error.code = Some(16) -> mapped.name = "AuthenticationError"
              [] error.code = Some(14) -> mapped.name = "ServiceUnavailableError"
              [] OTHER ->
                    /\ mapped.name = "FlightError"
                    /\ mapped.code = (IF error.code.def
                                      THEN Some(CodeString(error.code.val))
                                      ELSE NoString)
                    /\ mapped.message = (IF error.message.def
                                         THEN error.message.val
                                         ELSE "Unknown error")

\* C12 amended: every transport error is mapped to a base FlightError: code 16
\* to message 'Authentication failed' and code 'UNAUTHENTICATED', code 14 to
\* 'Service unavailable' and 'UNAVAILABLE', any other to the code as a string
\* (undefined without a code) and the transport's message ('Unknown error'
\* when that is missing or empty).
C12_MapsToFlightError ==
    sql.grpcError.def =>
        LET error == sql.grpcError.val
            mapped == sql.rejection
        IN  /\ mapped.name = "FlightError"
            /\ CASE error.code = Some(16) ->
                        /\ mapped.message = "Authentication failed"
                        /\ mapped.code = Some("UNAUTHENTICATED")
                  [] error.code = Some(14) ->
                        /\ mapped.message = "Service unavailable"
                        /\ mapped.code = Some("UNAVAILABLE")
                  [] OTHER ->
                        /\ mapped.code = (IF error.code.def
                                          THEN Some(CodeString(error.code.val))
                                          ELSE NoString)
                        /\ mapped.message =
                              (IF error.message.def /\ error.message.val # ""
                               THEN error.message.val
                               ELSE "Unknown error")

C12_Witness ==
    /\ sql.grpcError = Some(GrpcError(Some(14), Some("boom")))
    /\ sql.rejection.code = Some("UNAVAILABLE")
    /\ sql.pc = "done"
    /\ \E error \in SqlGrpcErrors : error.code = Some(16)
    /\ \E error \in SqlGrpcErrors : ~error.code.def /\ ~error.message.def
    /\ \E error \in SqlGrpcErrors : error.code = Some(0) /\ error.message = Some("boom")

\* the FlightInfo an invocation received has no endpoint, or its first
\* endpoint has no ticket
NoEndpoints == sql.flightInfo.def /\ Len(sql.flightInfo.val) = 0

NoTicket ==
    /\ sql.flightInfo.def
    /\ Len(sql.flightInfo.val) > 0
    /\ ~sql.flightInfo.val[1].ticket.def

\* C14 as stated: execute and executePrepared fail with a ProtocolError when
\* getFlightInfo returns no endpoint or a first endpoint without ticket, and
\* call no do-get.
C14_FailsWithProtocolError ==
    (sql.method \in QueryMethods /\ (NoEndpoints \/ NoTicket)) =>
        /\ sql.promise.state = "rejected"
        /\ sql.promise.error.name = "ProtocolError"
        /\ sql.rpcs.doGet = 0

\* C14 amended: they fail with a FlightSQLError whose message contains 'No
\* endpoints returned' (no endpoint) or 'No ticket returned from endpoint'
\* (first endpoint without ticket), for executePrepared inside the message
\* of its own failure, and call no do-get.
C14_FailsWithFlightSQLError ==
    (sql.method \in QueryMethods /\ (NoEndpoints \/ NoTicket)) =>
        /\ sql.promise.state = "rejected"
        /\ sql.promise.error.name = "FlightSQLError"
        /\ sql.promise.error.message =
              (CASE sql.method = "execute" /\ NoEndpoints ->
                        "No endpoints returned from query"
                 [] sql.method = "execute" /\ NoTicket ->
                        "No ticket returned from endpoint"
                 [] sql.method = "executePrepared" /\ NoEndpoints ->
                        "Failed to execute prepared statement: FlightSQLError: "
                            \o "No endpoints returned from prepared query"
                 [] sql.method = "executePrepared" /\ NoTicket ->
                        "Failed to execute prepared statement: FlightSQLError: "
                            \o "No ticket returned from endpoint")
        /\ sql.rpcs.doGet = 0
        /\ sql.rpcs.getFlightInfo = 1

C14_Witness ==
    /\ sql.method = "execute"
    /\ NoEndpoints
    /\ sql.promise.state = "rejected"
    /\ \E flightInfo \in FlightInfos :
          Len(flightInfo) = 2 /\ ~flightInfo[1].ticket.def /\ flightInfo[2].ticket.def

\* C15: a metadata method whose getFlightInfo returns no endpoint, or a first
\* endpoint without ticket, resolves with an empty sequence; it does not fail
\* and calls no do-get.
C15_MetadataResolvesEmpty ==
    (sql.method \in MetadataMethods /\ (NoEndpoints \/ NoTicket)) =>
        /\ sql.promise.state = "resolved"
        /\ Len(sql.promise.value) = 0
        /\ sql.promise.error = NoError
        /\ sql.caught = NoError
        /\ sql.rpcs.doGet = 0

C15_Witness ==
    /\ sql.method = "getForeignKeys"
    /\ NoTicket
    /\ Len(sql.flightInfo.val) = 2
    /\ sql.promise.state = "resolved"
    /\ sql.pc = "done"

\* C16: a method that fails was failed by an error that reached its catch
\* block; if that error is typed already (a FlightError or a subclass of it,
\* raised by the lower layer or by the method itself) the method fails with
\* that very error, else with a FlightSQLError (the SQLCommandError of this
\* code) that wraps it.
C16_TypedErrorsRethrownUnchanged ==
    sql.promise.state = "rejected" =>
        IF InstanceofFlightError(sql.caught)
        THEN sql.promise.error = sql.caught
        ELSE /\ sql.promise.error.name = "FlightSQLError"
             /\ sql.promise.error # sql.caught

(***************************************************************************)
(* Claims about the session.                                               *)
(***************************************************************************)
\* C13: close() never fails, and a close() while no channel exists (none was
\* ever created, or an earlier close() tore it down) changes nothing: the
\* session is as it was before.  (close() is the only step that leaves every
\* invocation as it is.)
C13_CloseIdempotent ==
    [][/\ ~history'.closeThrew
       /\ (calls' = calls /\ constructed.client = 0) =>
              /\ constructed' = constructed
              /\ channelsCreated' = channelsCreated
              /\ history' = history]_vars

C13_Witness ==
    /\ constructed.client = 0
    /\ channelsCreated >= 1
    /\ ~history.closeThrew
    /\ \E i \in CallIds : calls[i].stream = "open"

\* C17: a stream error during the handshake makes the primitive operation
\* whose connect opened the handshake fail with an AuthenticationError.
C17_HandshakeErrorIsAuthenticationError ==
    \A i \in CallIds :
        calls[i].hsState = "rejected" =>
            /\ calls[i].promise.state = "rejected"
            /\ calls[i].promise.error.name = "AuthenticationError"

\* C18: when a handshake has completed, the authorization state is the
\* authorization header of its response metadata if that carried one and the
\* original config-derived value otherwise; completion without a header is a
\* success.
C18_AuthorizationAfterHandshake ==
    \A i \in CallIds :
        calls[i].pc = "resume" =>
            /\ calls[i].hsState = "resolved" =>
                  constructed.metadata =
                      (IF calls[i].hsAuthHeader.def THEN calls[i].hsAuthHeader
                                                    ELSE createMetadata(config))
            /\ calls[i].promise.state = "pending"

\* C19: over the whole session, whatever operations and close() calls are
\* made, at most one handshake stream is opened, and none on a session
\* without a credential.
C19_HandshakeAtMostOnce ==
    /\ history.handshakes <= 1
    /\ ~Credentialed(config) => history.handshakes = 0

\* C20: the authorization state starts at the config-derived value and is
\* overwritten at most once, only by the response of a handshake that
\* succeeds.
C20_AuthorizationOverwrittenAtMostOnce ==
    /\ history.authorizationSets <= 1
    /\ history.authorizationSets = 0 => constructed.metadata = createMetadata(config)
    /\ \A i \in CallIds :
          calls[i].hsState = "rejected" => ~calls[i].hsAuthHeader.def

\* C21: on a session with a credential, operations started together all
\* attach the same authorization value to their RPCs, none of them issues its
\* RPC while the handshake is still in progress, and the authorization entry
\* is set at most once.
C21_ConcurrentCallsSameAuthorization ==
    Credentialed(config) =>
        /\ \A i, j \in DOMAIN calls :
              calls[i].stream # "none" /\ calls[j].stream # "none" =>
                  calls[i].authorization = calls[j].authorization
        /\ \A i, j \in DOMAIN calls :
              calls[i].hsState = "open" => calls[j].stream = "none"
        /\ history.authorizationSets <= 1

(***************************************************************************)
(* Claims about the do-get stream.                                         *)
(***************************************************************************)
\* the table decoded from the hand-framed blocks of the frames, in order
ReassemblyOf(frames) ==
    IF frames = <<>> THEN NewTable
    ELSE [hasSchema |-> TRUE,
          ipc |-> [k \in 1..Len(Kept(frames)) |-> ReferenceBlock(Kept(frames)[k])]]

\* a data event appends the frame to the buffer of its call
BufferedInArrivalOrder(i) ==
    (calls[i].stream = "open" /\ calls'[i].stream = "open"
        /\ calls'[i].flightDataMessages # calls[i].flightDataMessages) =>
        \E flightData \in StreamFrames :
            calls'[i].flightDataMessages = Append(calls[i].flightDataMessages, flightData)

\* a stream error rejects with the mapped error and no table, and an end
\* event after it changes nothing
ErrorDiscardsBuffer(i) ==
    /\ (calls[i].stream = "open" /\ calls'[i].stream = "errored") =>
          \E error \in GrpcErrors :
              calls'[i].promise = [state |-> "rejected", table |-> NoTable,
                                   error |-> parseErrorFromGrpc(error)]
    /\ (calls[i].stream = "errored" /\ calls'[i].stream = "erroredEnded") =>
          calls'[i].promise = calls[i].promise

C23_SettlesOnceWithTypedError ==
    [][\A i \in DOMAIN calls :
          /\ (calls[i].promise.state # "pending" /\ calls'[i].pc # "idle") =>
                calls'[i].promise = calls[i].promise
          /\ calls'[i].promise.state = "resolved" =>
                /\ calls'[i].promise.error = NoError
                /\ calls'[i].promise.table # NoTable
          /\ calls'[i].promise.state = "rejected" =>
                /\ InstanceofFlightError(calls'[i].promise.error)
                /\ calls'[i].promise.table = NoTable]_vars

(***************************************************************************)
(* Claims about the channel.                                               *)
(***************************************************************************)
\* C24: over any sequence of operations and close() calls, the session
\* creates at most one channel: after close() no operation creates another.
C24_AtMostOneChannel ==
    /\ channelsCreated <= 1
    /\ \A i \in DOMAIN calls : calls[i].channel <= 1

\* C25: the constructor creates no channel; a channel is created only by an
\* operation invoked while the session has none, and that operation creates
\* one (or fails because the channel cannot be constructed); an operation
\* issues its RPC only on a channel the session has.
C25_LazyConnect ==
    [][/\ constructed'.client <= channelsCreated'
       /\ channelsCreated = 0 => constructed.client = 0
       /\ channelsCreated' # channelsCreated =>
             /\ constructed.client = 0
             /\ channelsCreated' = channelsCreated + 1
             /\ constructed'.client = channelsCreated'
             /\ \E i \in DOMAIN calls : calls[i].pc = "idle" /\ calls'[i].pc # "idle"
       /\ \A i \in DOMAIN calls :
             /\ (calls[i].pc = "idle" /\ calls'[i].pc # "idle"
                    /\ constructed.client = 0) =>
                   \/ channelsCreated' = channelsCreated + 1
                   \/ /\ calls'[i].promise.state = "rejected"
                      /\ calls'[i].promise.error.name = "ConnectionError"
             /\ (calls[i].stream = "none" /\ calls'[i].stream = "open") =>
                   /\ constructed.client # 0
                   /\ calls'[i].channel = constructed.client
                   /\ constructed' = constructed]_vars

C25_Witness ==
    /\ channelsCreated = 1
    /\ \E i \in DOMAIN calls :
          /\ calls[i].stream = "open"
          /\ calls[i].channel = 1
          /\ calls[i].hsState = "none"

KnownTypeUrl(method) ==
    CASE method \in {"execute", "getQuerySchema"} -> TYPE_URLS.COMMAND_STATEMENT_QUERY
      [] method = "executePrepared" -> TYPE_URLS.COMMAND_PREPARED_STATEMENT_QUERY
      [] method = "getCatalogs"     -> TYPE_URLS.COMMAND_GET_CATALOGS
      [] method = "getSchemas"      -> TYPE_URLS.COMMAND_GET_DB_SCHEMAS
      [] method = "getTables"       -> TYPE_URLS.COMMAND_GET_TABLES
      [] method = "getTableTypes"   -> TYPE_URLS.COMMAND_GET_TABLE_TYPES
      [] method = "getPrimaryKeys"  -> TYPE_URLS.COMMAND_GET_PRIMARY_KEYS
      [] method = "getForeignKeys"  -> TYPE_URLS.COMMAND_GET_IMPORTED_KEYS

\* the serialized envelope with a type-URL and a payload
EnvelopeOf(typeUrl, payload) ==
    <<"type_url", typeUrl>>
        \o (IF payload = <<>> THEN <<>>
            ELSE <<"value", ToString(Len(payload))>> \o payload)

\* C27: every descriptor the command layer builds for a command has kind CMD
\* and carries an envelope whose type-URL is the Flight SQL type identifier
\* of that command kind and whose payload is the serialized command.
C27_DescriptorsCarryEnvelope ==
    (sql.pc # "idle" /\ sql.method \notin ActionMethods) =>
        /\ sql.request.type = "CMD"
        /\ sql.request.cmd = EnvelopeOf(KnownTypeUrl(sql.method),
                                        SerializedCommand(sql.method, sql.args))

(***************************************************************************)
(* Claims about prepared statements.                                       *)
(***************************************************************************)
\* C28: the action prepare(query) sends is determined by the query text, so
\* that it is not the action another query would send; when the response has
\* no Result prepare fails with a ProtocolError, and otherwise the handle it
\* returns is the body of the first Result.
C28_PrepareSendsQuery ==
    (sql.method = "prepare" /\ sql.pc # "idle") =>
        /\ \A query \in Queries \ {sql.args.query} :
              sql.request # ActionArgument("prepare", [NoArgs EXCEPT !.query = query])
        /\ (sql.results.def /\ sql.results.val = <<>>) =>
              /\ sql.promise.state = "rejected"
              /\ sql.promise.error.name = "ProtocolError"
        /\ (sql.results.def /\ sql.results.val # <<>>) =>
              /\ sql.promise.state = "resolved"
              /\ sql.promise.value = <<sql.results.val[1]>>

\* C29: the action closePrepared(handle) sends carries the handle, so that it
\* is not the action another handle would send, and closePrepared resolves
\* only after the result stream of the action has ended without an error.
C29_ClosePreparedEchoesHandle ==
    (sql.method = "closePrepared" /\ sql.pc # "idle") =>
        /\ \A handle \in Handles \ {sql.args.handle} :
              sql.request # ActionArgument("closePrepared",
                                           [NoArgs EXCEPT !.handle = handle])
        /\ sql.promise.state = "resolved" =>
              /\ sql.results.def
              /\ sql.rejection = NoError
              /\ sql.rpcs.doAction = 1

\* C30: the client keeps no prepared-statement state: executePrepared passes
\* the same descriptor to getFlightInfo for a handle whether or not the handle
\* was closed before, it always makes the request, and when it fails the
\* failure comes from a primitive operation or from the response of the
\* server.
C30_NoPreparedStatementState ==
    /\ \A p, q \in sql.requested : p.handle = q.handle => p.descriptor = q.descriptor
    /\ (sql.method = "executePrepared" /\ sql.pc # "idle") =>
          /\ sql.rpcs.getFlightInfo = 1
          /\ \E p \in sql.requested :
                p.handle = sql.args.handle /\ p.descriptor = sql.request
          /\ sql.promise.state = "rejected" =>
                sql.rejection # NoError \/ sql.flightInfo.def

C30_Witness ==
    /\ sql.method = "executePrepared"
    /\ sql.promise.state = "resolved"
    /\ sql.args.handle \in sql.closed
    /\ \E p, q \in sql.requested :
          /\ p.handle = sql.args.handle
          /\ q.handle = sql.args.handle
          /\ p.afterClose
          /\ ~q.afterClose

(***************************************************************************)
(* Claims about the results of the command layer.                          *)
(***************************************************************************)
\* an element of the result of a metadata method has a value in each field
ElementComplete(method, element) ==
    IF method \in {"getCatalogs", "getTableTypes"}
    THEN element.def
    ELSE \A field \in DOMAIN element : element[field].def

\* C31: a metadata method never resolves with an element that has an
\* undefined field in place of a column the decoded row lacks: such a row
\* makes the method fail.
C31_MissingColumnFails ==
    (sql.method \in MetadataMethods /\ sql.promise.state = "resolved") =>
        \A k \in 1..Len(sql.promise.value) :
            ElementComplete(sql.method, sql.promise.value[k])

\* C34: in every query or metadata call exactly one getFlightInfo is issued
\* (none is saved from an earlier call); doGet is issued only after that
\* getFlightInfo has resolved, with the ticket of the first endpoint of its
\* response, and exactly once however many endpoints the response lists; if
\* getFlightInfo fails no doGet is issued.
C34_QueryChoreography ==
    (sql.method \in QueryMethods \cup MetadataMethods /\ sql.pc # "idle") =>
        /\ sql.rpcs.getFlightInfo = 1
        /\ sql.rpcs.doGet <= 1
        /\ sql.rpcs.doGet = 1 =>
              /\ sql.flightInfo.def
              /\ Len(sql.flightInfo.val) >= 1
              /\ sql.ticket.def
              /\ sql.ticket = sql.flightInfo.val[1].ticket
        /\ ~sql.flightInfo.def => sql.rpcs.doGet = 0
        /\ (sql.flightInfo.def /\ Len(sql.flightInfo.val) >= 1
               /\ sql.flightInfo.val[1].ticket.def) =>
              sql.rpcs.doGet = 1

C34_Witness ==
    /\ sql.method = "getTables"
    /\ sql.promise.state = "resolved"
    /\ sql.flightInfo.def
    /\ Len(sql.flightInfo.val) = 2
    /\ sql.rpcs.doGet = 1
    /\ sql.ticket = Some("ticket1")
    /\ sql.requested # {}

(***************************************************************************)
(* Claims about what the decoder is handed.                                *)
(***************************************************************************)
\* C39: whenever the decoder is invoked it is handed at least one message
\* block: frames that all lack a header give the empty result without the
\* decoder.
C39_DecoderGetsABlock ==
    \A k \in 1..Len(decoderCalls) : decoderCalls[k] # <<>>

(***************************************************************************)
(* Claims about the handshake, close() and operations in flight together.  *)
(***************************************************************************)
\* C35: on a session with a credential, an operation that issues its RPC
\* when no handshake is in progress does so on a channel whose handshake has
\* completed successfully: after a failed handshake no operation proceeds on
\* the channel it left behind.
C35_RpcOnlyAfterSuccessfulHandshake ==
    [][\A i \in DOMAIN calls :
          (Credentialed(config) /\ calls[i].stream = "none"
              /\ calls'[i].stream = "open"
              /\ \A j \in DOMAIN calls : calls[j].hsState # "open") =>
              \E j \in DOMAIN calls : calls[j].hsState = "resolved"]_vars

\* C36: when the handshake fails the authorization entry of the session is
\* what it was before the handshake, whatever the handshake stream delivered
\* before its error.
C36_FailedHandshakeKeepsAuthorization ==
    \A i \in DOMAIN calls :
        calls[i].hsState = "rejected" => constructed.metadata = createMetadata(config)

\* C37: when an operation comes to issue its RPC after its lazy connect, the
\* session has a channel and the RPC is issued on it, whatever close() calls
\* were made in between.
C37_ChannelExistsAtIssue ==
    [][\A i \in DOMAIN calls :
          (calls[i].pc = "resume" /\ calls'[i].pc # "resume") =>
              /\ constructed.client # 0
              /\ calls'[i].stream = "open"
              /\ calls'[i].channel = constructed.client]_vars

IsPrefix(p, q) ==
    /\ Len(p) <= Len(q)
    /\ \A k \in 1..Len(p) : p[k] = q[k]

\* C32: doAction, listFlights and listActions resolve when the stream ends,
\* and only then, with exactly what the transport delivered on the call, in
\* the order of arrival; when the stream errors before it ends they reject
\* with parseErrorFromGrpc of the error the transport reported.
C32_ResultsInArrivalOrder ==
    \A i \in DOMAIN calls :
        calls[i].kind \in ListKinds =>
            /\ calls[i].stream = "open" => calls[i].promise.state = "pending"
            /\ calls[i].stream = "ended" =>
                  /\ calls[i].promise.state = "resolved"
                  /\ calls[i].promise.value = calls[i].delivered
            /\ calls[i].stream \in {"errored", "erroredEnded"} =>
                  /\ calls[i].promise.state = "rejected"
                  /\ calls[i].promise.error = parseErrorFromGrpc(calls[i].grpcError.val)
            /\ calls[i].promise.state = "resolved" => calls[i].stream = "ended"

C32_Witness ==
    \E i \in DOMAIN calls :
        /\ calls[i].kind = "listFlights"
        /\ calls[i].promise.state = "resolved"
        /\ calls[i].promise.value = <<"r1", "r2">>

\* C33: what doPut has passed to call.write is at every moment the first
\* frames of its input, in the order of the input; it calls call.end() at
\* most once, and only after it has written every frame; when the loop over
\* an input that completes is left, every frame was written and call.end()
\* was called once; and the promise is resolved only after the end event of
\* the server.
C33_PutForwardsInOrder ==
    \A i \in DOMAIN calls :
        calls[i].kind = "doPut" =>
            /\ IsPrefix(calls[i].written, calls[i].input)
            /\ calls[i].ended <= 1
            /\ calls[i].ended = 1 => calls[i].written = calls[i].input
            /\ calls[i].writer = "done" =>
                  calls[i].ended = 1 /\ calls[i].written = calls[i].input
            /\ calls[i].promise.state = "resolved" => calls[i].stream = "ended"

C33_Witness ==
    \E i \in DOMAIN calls :
        /\ calls[i].kind = "doPut"
        /\ calls[i].input = <<"f1", "f2">>
        /\ calls[i].written = calls[i].input
        /\ calls[i].ended = 1
        /\ calls[i].promise.state = "resolved"

\* C40: once the promise of a doPut has settled, the invocation passes no
\* further frame to call.write and does not call call.end().
C40_NoWriteAfterSettled ==
    [][\A i \in DOMAIN calls :
          (calls[i].kind = "doPut" /\ calls[i].promise.state # "pending"
              /\ calls'[i].kind = "doPut") =>
              /\ calls'[i].written = calls[i].written
              /\ calls'[i].ended = calls[i].ended]_vars
====
